---- MODULE Spec2Model ----
(***************************************************************************)
(* Script Registry & Activation Engine of the ZTP bootstrap web UI         *)
(* (src/webui/app.py, src/webui/security_utils.py).                        *)
(*                                                                         *)
(* The registry directory CONFIG_DIR is modelled as a function from the    *)
(* names of its entries to a regular file (content, mtime) or a symbolic   *)
(* link (target name).  File names are sequences of one-character strings  *)
(* so that the name grammar, the path handling and the number formatting   *)
(* of the handlers are computed the way the code computes them.            *)
(***************************************************************************)
EXTENDS Integers, Sequences, FiniteSets, TLC

VARIABLES fs, meta, op, requests,
          log, conn_file, ledger_file, ret, hist, lop, passes,
          session, login_attempts, clock, aop, failed, logins, saved,
          act, jobs

\* the registry directory, its metadata, the last request and the request count
rvars == <<fs, meta, op, requests>>
\* the access log, the persisted device map and ledger, the map the last
\* Reconstructor pass returned, the lines folded into each device so far
\* (history), the last step of the Reconstructor and the number of passes
lvars == <<log, conn_file, ledger_file, ret, hist, lop, passes>>
\* the session cookie the administrator's browser holds, the failed logins
\* counted per client address, the wall clock of the authentication layer,
\* the last authentication request, the times of the recent failed logins
\* of each address since its last successful one (history), the number
\* of login requests, and a copy of the session cookie that a client kept
avars == <<session, login_attempts, clock, aop, failed, logins, saved>>
\* the Activate request that is between two of its file operations, and the
\* Reconstructor passes that run in the threads of the server
cvars == <<act, jobs>>
vars == <<fs, meta, op, requests, log, conn_file, ledger_file, ret, hist, lop, passes,
          session, login_attempts, clock, aop, failed, logins, saved, act, jobs>>

(***************************************************************************)
(* Bounds of the model.                                                    *)
(***************************************************************************)
\* clock ticks that may pass after the initial state
MaxTicks == 1
\* number of mutating requests (POST, DELETE) in a run
MaxRequests == 2
\* clock ticks per second (st_mtime is a float, backup names hold int seconds)
TicksPerSecond == 2

\* cleanup_old_backups keeps this many backups
KEEP == 5

\* contents of the uploads; the initial files hold the contents 1 and 2
UploadContents == {3}

(***************************************************************************)
(* Character strings.                                                      *)
(***************************************************************************)
NUL == "NUL"
NL == "NL"
BSLASH == "BSLASH"

LowerCase == {"a","b","c","d","e","f","g","h","i","j","k","l","m",
              "n","o","p","q","r","s","t","u","v","w","x","y","z"}
UpperCase == {"A","B","C","D","E","F","G","H","I","J","K","L","M",
              "N","O","P","Q","R","S","T","U","V","W","X","Y","Z"}
DigitChars == <<"0","1","2","3","4","5","6","7","8","9">>
Digits == {DigitChars[i] : i \in 1..10}

S_bootstrap == <<"b","o","o","t","s","t","r","a","p">>
S_py == <<".","p","y">>
S_backup_ == <<"_","b","a","c","k","u","p","_">>
S_restored_ == <<"_","r","e","s","t","o","r","e","d","_">>
S_bootstrap_ == S_bootstrap \o <<"_">>
S_bootstrap_backup_ == S_bootstrap \o S_backup_

\* str.startswith / str.endswith / substring test ("p in s")
StartsWith(s, p) == Len(s) >= Len(p) /\ SubSeq(s, 1, Len(p)) = p
EndsWith(s, p) == Len(s) >= Len(p) /\ SubSeq(s, Len(s) - Len(p) + 1, Len(s)) = p
Contains(s, p) == \E i \in 1..(Len(s) - Len(p) + 1) : SubSeq(s, i, i + Len(p) - 1) = p

\* str.replace(c, '') for a single character c
RECURSIVE RemoveChar(_, _)
RemoveChar(s, c) ==
    IF s = <<>> THEN <<>>
    ELSE IF Head(s) = c THEN RemoveChar(Tail(s), c)
    ELSE <<Head(s)>> \o RemoveChar(Tail(s), c)

\* Path(filename).name on a POSIX path: the last component that is neither
\* empty nor "."
RECURSIVE SplitSlash(_, _, _)
SplitSlash(s, cur, acc) ==
    IF s = <<>> THEN Append(acc, cur)
    ELSE IF Head(s) = "/" THEN SplitSlash(Tail(s), <<>>, Append(acc, cur))
    ELSE SplitSlash(Tail(s), Append(cur, Head(s)), acc)

PathName(s) ==
    LET parts == SelectSeq(SplitSlash(s, <<>>, <<>>), LAMBDA c : c # <<>> /\ c # <<".">>)
    IN IF parts = <<>> THEN <<>> ELSE parts[Len(parts)]

\* str(n) for a natural number n
RECURSIVE Dec(_)
Dec(n) == IF n < 10 THEN <<DigitChars[n + 1]>> ELSE Dec(n \div 10) \o <<DigitChars[(n % 10) + 1]>>

\* two-digit field of strftime (%H, %M, %S, %m, %d)
Dec2(n) == <<DigitChars[(n \div 10) + 1], DigitChars[(n % 10) + 1]>>

(***************************************************************************)
(* security_utils.py and safe_path_join.  None is the empty name.          *)
(***************************************************************************)
None == <<>>

AllowedChars == LowerCase \cup UpperCase \cup Digits \cup {"_", ".", "-"}

\* re.match(r'^bootstrap[a-zA-Z0-9_.-]*\.py$', s) with the end anchored
FullMatch(s) ==
    /\ Len(s) >= Len(S_bootstrap) + Len(S_py)
    /\ StartsWith(s, S_bootstrap)
    /\ EndsWith(s, S_py)
    /\ \A i \in (Len(S_bootstrap) + 1)..(Len(s) - Len(S_py)) : s[i] \in AllowedChars

\* '$' also matches just before one trailing newline
MatchesPattern(s) ==
    \/ FullMatch(s)
    \/ /\ s # <<>>
       /\ s[Len(s)] = NL
       /\ FullMatch(SubSeq(s, 1, Len(s) - 1))

HasDangerous(s) ==
    \/ Contains(s, <<".", ".">>)
    \/ Contains(s, <<"/">>)
    \/ Contains(s, <<BSLASH>>)
    \/ Contains(s, <<NUL>>)

sanitize_filename(filename) ==
    IF filename = <<>> THEN None
    ELSE LET name == RemoveChar(PathName(filename), NUL)
         IN IF ~MatchesPattern(name) THEN None
            ELSE IF HasDangerous(name) THEN None
            ELSE name

validate_filename_for_api(filename) ==
    IF filename = <<>> THEN None
    ELSE IF ~EndsWith(filename, S_py) THEN None
    ELSE sanitize_filename(filename)

(***************************************************************************)
(* The registry directory.                                                 *)
(***************************************************************************)
BOOTSTRAP_SCRIPT == S_bootstrap \o S_py

File(c, m) == [kind |-> "file", content |-> c, mtime |-> m]
Link(t) == [kind |-> "link", target |-> t]

\* Path.is_symlink()
IsSymlink(f, n) == n \in DOMAIN f /\ f[n].kind = "link"

\* Path.resolve(): follow the links of the entry; a missing entry resolves to
\* itself.  k bounds the number of links followed.
RECURSIVE ResolveN(_, _, _)
ResolveN(f, n, k) ==
    IF k > 0 /\ IsSymlink(f, n) THEN ResolveN(f, f[n].target, k - 1) ELSE n

Resolve(f, n) == ResolveN(f, n, Cardinality(DOMAIN f))

\* resolve() raises on a chain of links that never ends
Loops(f, n) == IsSymlink(f, Resolve(f, n))

\* Path.exists(): follows links
Exists(f, n) == ~Loops(f, n) /\ Resolve(f, n) \in DOMAIN f

\* Path.stat(): the regular file the entry resolves to
Stat(f, n) == f[Resolve(f, n)]

\* safe_path_join(CONFIG_DIR, filename): the entry of the directory, or None
safe_path_join(f, filename) ==
    IF filename = <<>> THEN None
    ELSE IF Contains(filename, <<"/">>) \/ Contains(filename, <<BSLASH>>)
            \/ Contains(filename, <<".", ".">>) THEN None
    ELSE IF Loops(f, filename) THEN None
    ELSE filename

\* Path.unlink(): removes the entry itself
Unlink(f, n) == [x \in DOMAIN f \ {n} |-> f[x]]

\* Path.rename(): moves the entry itself, replacing an entry of the new name
RenameEntry(f, a, b) ==
    IF a = b THEN f ELSE (b :> f[a]) @@ Unlink(f, a)

\* open(path, 'wb') and write: follows links, creates the file
WriteThrough(f, n, c, m) == (Resolve(f, n) :> File(c, m)) @@ f

\* shutil's _samefile(src, dst)
SameFile(f, src, dst) == Exists(f, src) /\ Exists(f, dst) /\ Resolve(f, src) = Resolve(f, dst)

\* shutil.copy2(src, dst) when it does not raise: bytes and times of src
Copy2(f, src, dst) == WriteThrough(f, dst, Stat(f, src).content, Stat(f, src).mtime)

\* int(path.stat().st_mtime)
IntSeconds(m) == m \div TicksPerSecond

IsBackupName(n) == StartsWith(n, S_bootstrap_backup_)

\* script_dir.glob('bootstrap_backup_*.py')
GlobBackups(f) == {n \in DOMAIN f : IsBackupName(n) /\ EndsWith(n, S_py)}

\* script_dir.glob('bootstrap*.py')
GlobScripts(f) == {n \in DOMAIN f : StartsWith(n, S_bootstrap) /\ EndsWith(n, S_py)}

(***************************************************************************)
(* cleanup_old_backups: the directory listings it can leave.  The sort is  *)
(* by modification time alone, newest first, and the order of the glob is  *)
(* arbitrary, so among backups of equal time any may be the ones kept.     *)
(***************************************************************************)
KeptSets(f) ==
    LET B == {n \in GlobBackups(f) : Exists(f, n)}
    IN IF Cardinality(B) <= KEEP THEN {B}
       ELSE {K \in SUBSET B :
                /\ Cardinality(K) = KEEP
                /\ \A k \in K : \A d \in B \ K : Stat(f, k).mtime >= Stat(f, d).mtime}

\* mutant: the sort without reverse=True keeps the 5 oldest
cleanup_keeps_oldest(f) ==
    LET B == {n \in GlobBackups(f) : Exists(f, n)}
        Ks == IF Cardinality(B) <= KEEP THEN {B}
              ELSE {K \in SUBSET B :
                       /\ Cardinality(K) = KEEP
                       /\ \A k \in K : \A d \in B \ K : Stat(f, k).mtime <= Stat(f, d).mtime}
    IN {[x \in {n \in DOMAIN f : n \in B => n \in K} |-> f[x]] : K \in Ks}

\* mutant: the slice backup_files[6:] keeps one backup too many
cleanup_keeps_six(f) ==
    LET B == {n \in GlobBackups(f) : Exists(f, n)}
        Ks == IF Cardinality(B) <= KEEP + 1 THEN {B}
              ELSE {K \in SUBSET B :
                       /\ Cardinality(K) = KEEP + 1
                       /\ \A k \in K : \A d \in B \ K : Stat(f, k).mtime >= Stat(f, d).mtime}
    IN {[x \in {n \in DOMAIN f : n \in B => n \in K} |-> f[x]] : K \in Ks}

cleanup_old_backups(f) ==
    {[x \in {n \in DOMAIN f : (n \in GlobBackups(f) /\ Exists(f, n)) => n \in K} |-> f[x]] :
        K \in KeptSets(f)}

(***************************************************************************)
(* Ordering of names (str comparison by code point) and sorting.           *)
(***************************************************************************)
AsciiOrder ==
    <<"-", ".", "0","1","2","3","4","5","6","7","8","9",
      "A","B","C","D","E","F","G","H","I","J","K","L","M",
      "N","O","P","Q","R","S","T","U","V","W","X","Y","Z", "_",
      "a","b","c","d","e","f","g","h","i","j","k","l","m",
      "n","o","p","q","r","s","t","u","v","w","x","y","z">>

Ord(c) == CHOOSE i \in 1..Len(AsciiOrder) : AsciiOrder[i] = c

RECURSIVE NameLess(_, _)
NameLess(a, b) ==
    IF b = <<>> THEN FALSE
    ELSE IF a = <<>> THEN TRUE
    ELSE IF Head(a) = Head(b) THEN NameLess(Tail(a), Tail(b))
    ELSE Ord(Head(a)) < Ord(Head(b))

RECURSIVE SetToSeq(_)
SetToSeq(S) ==
    IF S = {} THEN <<>>
    ELSE LET x == CHOOSE y \in S : \A z \in S : z = y \/ NameLess(y, z)
         IN <<x>> \o SetToSeq(S \ {x})

\* key=lambda x: (not x['active'], x['name'])
KeyLess(x, y) ==
    \/ x.active /\ ~y.active
    \/ x.active = y.active /\ NameLess(x.name, y.name)

(***************************************************************************)
(* GET /api/bootstrap-scripts                                              *)
(***************************************************************************)
\* the name the pointer resolves to, None when bootstrap.py does not exist
ActiveScript(f) ==
    IF Exists(f, BOOTSTRAP_SCRIPT)
    THEN IF IsSymlink(f, BOOTSTRAP_SCRIPT) THEN Resolve(f, BOOTSTRAP_SCRIPT)
         ELSE BOOTSTRAP_SCRIPT
    ELSE None

ActiveResolvedName(f) ==
    LET a == ActiveScript(f)
    IN IF a # None /\ Exists(f, a) THEN Resolve(f, a) ELSE None

\* the entries the loop over glob('bootstrap*.py') appends
Listed(f) ==
    {n \in GlobScripts(f) :
        /\ ~IsBackupName(n)
        /\ ~(IsSymlink(f, n) /\ (Loops(f, n) \/ Resolve(f, n) = n))
        /\ Exists(f, n)}

ListEntry(f, n) ==
    [name |-> n,
     active |-> IF ActiveResolvedName(f) # None THEN n = ActiveResolvedName(f)
                ELSE n = ActiveScript(f)]

\* the entry appended for bootstrap.py when the loop did not list it
FallbackEntry(f) ==
    [name |-> BOOTSTRAP_SCRIPT,
     active |-> IF ActiveResolvedName(f) # None
                THEN IF IsSymlink(f, BOOTSTRAP_SCRIPT)
                     THEN Resolve(f, BOOTSTRAP_SCRIPT) = ActiveResolvedName(f)
                     ELSE BOOTSTRAP_SCRIPT = ActiveResolvedName(f)
                ELSE BOOTSTRAP_SCRIPT = ActiveScript(f)]

list_bootstrap_scripts(f) ==
    LET names == SetToSeq(Listed(f))
        looped == [i \in 1..Len(names) |-> ListEntry(f, names[i])]
        scripts == IF Exists(f, BOOTSTRAP_SCRIPT) /\ BOOTSTRAP_SCRIPT \notin Listed(f)
                   THEN Append(looped, FallbackEntry(f))
                   ELSE looped
    IN [scripts |-> SortSeq(scripts, KeyLess), active |-> ActiveScript(f)]

(***************************************************************************)
(* GET /api/bootstrap-script/<filename>                                    *)
(***************************************************************************)
Response(status, err) == [status |-> status, err |-> err]

get_bootstrap_script(f, filename) ==
    LET name == validate_filename_for_api(filename)
        script_path == safe_path_join(f, name)
    IN IF name = None THEN Response(400, "InvalidFilename")
       ELSE IF script_path = None THEN Response(400, "InvalidPath")
       ELSE IF ~Exists(f, script_path) \/ ~EndsWith(script_path, S_py)
       THEN Response(404, "NotFound")
       ELSE [status |-> 200, err |-> "",
             name |-> name,
             content |-> Stat(f, script_path).content,
             active |-> IF Exists(f, BOOTSTRAP_SCRIPT)
                        THEN IF IsSymlink(f, BOOTSTRAP_SCRIPT)
                             THEN Resolve(f, script_path) = Resolve(f, BOOTSTRAP_SCRIPT)
                             ELSE script_path = BOOTSTRAP_SCRIPT
                        ELSE FALSE]

(***************************************************************************)
(* POST /api/bootstrap-script/<filename>/set-active                        *)
(* The outcomes are a set because cleanup_old_backups has several.         *)
(***************************************************************************)
Out(f, status, err) == [fs |-> f, status |-> status, err |-> err]

\* f'bootstrap_backup_{int(target.stat().st_mtime)}.py'
BackupName(m) == S_bootstrap_backup_ \o Dec(IntSeconds(m)) \o S_py

\* mutant: the source is not resolved before the symlink is removed
SetActiveBootstrap_unresolved(f, script_path) ==
    LET target == BOOTSTRAP_SCRIPT
        f1 == IF Exists(f, target) /\ IsSymlink(f, target) THEN Unlink(f, target) ELSE f
    IN IF ~Exists(f, script_path) THEN {Out(f, 404, "NotFound")}
       ELSE IF ~Exists(f1, script_path) \/ SameFile(f1, script_path, target)
       THEN {Out(f1, 500, "CopyFailed")}
       ELSE {Out(Copy2(f1, script_path, target), 200, "")}

\* lines 823-862: filename is bootstrap.py
SetActiveBootstrap(f, script_path) ==
    LET target == BOOTSTRAP_SCRIPT
        source_file == IF IsSymlink(f, script_path) THEN Resolve(f, script_path)
                       ELSE script_path
        f1 == IF Exists(f, target) /\ IsSymlink(f, target) THEN Unlink(f, target) ELSE f
    IN IF ~Exists(f, script_path) THEN {Out(f, 404, "NotFound")}
       ELSE IF IsSymlink(f, script_path) /\ ~Exists(f, source_file)
       THEN {Out(f, 404, "SymlinkTargetMissing")}
       ELSE IF SameFile(f1, source_file, target) THEN {Out(f1, 500, "CopyFailed")}
       ELSE {Out(Copy2(f1, source_file, target), 200, "")}

\* lines 864-885: any other script
SetActiveOther(f, script_path) ==
    LET target == BOOTSTRAP_SCRIPT
        F1 == IF Exists(f, target) /\ IsSymlink(f, target) THEN {Unlink(f, target)}
              ELSE IF Exists(f, target)
              THEN cleanup_old_backups(
                       RenameEntry(f, target, BackupName(Stat(f, target).mtime)))
              ELSE {f}
    IN {IF target \in DOMAIN f1 THEN Out(f1, 500, "Exception")
        ELSE Out((target :> Link(script_path)) @@ f1, 200, "") : f1 \in F1}

set_active_script(f, filename) ==
    LET name == validate_filename_for_api(filename)
        script_path == safe_path_join(f, name)
    IN IF name = None THEN {Out(f, 400, "InvalidFilename")}
       ELSE IF script_path = None THEN {Out(f, 400, "InvalidPath")}
       ELSE IF ~Exists(f, script_path) \/ ~EndsWith(script_path, S_py)
       THEN {Out(f, 404, "NotFound")}
       ELSE IF name = BOOTSTRAP_SCRIPT THEN SetActiveBootstrap(f, script_path)
       ELSE SetActiveOther(f, script_path)

(***************************************************************************)
(* POST /api/bootstrap-script/<filename>/rename                            *)
(***************************************************************************)
Whitespace == {" ", NL}

RECURSIVE LStrip(_)
LStrip(s) == IF s # <<>> /\ Head(s) \in Whitespace THEN LStrip(Tail(s)) ELSE s

RECURSIVE RStrip(_)
RStrip(s) ==
    IF s # <<>> /\ s[Len(s)] \in Whitespace THEN RStrip(SubSeq(s, 1, Len(s) - 1)) ELSE s

\* str.strip()
Strip(s) == RStrip(LStrip(s))

OutM(f, m, status, err) == [fs |-> f, meta |-> m, status |-> status, err |-> err]

\* mutant: no auto-prefixing
NormalizeNewName_no_prefix(new_name) == sanitize_filename(new_name)

\* lines 913-925: the normalised new name, or the error
NormalizeNewName(new_name) ==
    IF sanitize_filename(new_name) # None THEN sanitize_filename(new_name)
    ELSE IF ~EndsWith(new_name, S_py) THEN None
    ELSE IF ~StartsWith(new_name, S_bootstrap) THEN sanitize_filename(S_bootstrap_ \o new_name)
    ELSE sanitize_filename(new_name)

\* mutant: the names are compared without resolving the pointer
IsActivePath_by_name(f, script_path) ==
    /\ Exists(f, BOOTSTRAP_SCRIPT)
    /\ BOOTSTRAP_SCRIPT = script_path

\* lines 934-945 and 995-1006: the entry is what the pointer resolves to
IsActivePath(f, script_path) ==
    /\ Exists(f, BOOTSTRAP_SCRIPT)
    /\ Resolve(f, BOOTSTRAP_SCRIPT) = Resolve(f, script_path)

\* metadata[new_name] = metadata.pop(old_name)
\* the metadata when the entry is copied to the new key and left under the
\* old one
MoveMeta_copies(m, old, new) ==
    IF old \in DOMAIN m
    THEN (new :> m[old]) @@ m
    ELSE m

\* metadata[new_name] = metadata.pop(sanitized_filename), when there is one
MoveMeta(m, old, new) ==
    IF old \in DOMAIN m
    THEN (new :> m[old]) @@ [k \in DOMAIN m \ {old} |-> m[k]]
    ELSE m

rename_bootstrap_script(f, m, filename, raw_new_name) ==
    LET name == validate_filename_for_api(filename)
        script_path == safe_path_join(f, name)
        stripped == Strip(raw_new_name)
        new_name == NormalizeNewName(stripped)
        new_path == safe_path_join(f, new_name)
    IN IF name = None THEN OutM(f, m, 400, "InvalidFilename")
       ELSE IF script_path = None THEN OutM(f, m, 400, "InvalidPath")
       ELSE IF ~Exists(f, script_path) \/ ~EndsWith(script_path, S_py)
       THEN OutM(f, m, 404, "NotFound")
       ELSE IF stripped = <<>> THEN OutM(f, m, 400, "NewNameRequired")
       ELSE IF sanitize_filename(stripped) = None /\ ~EndsWith(stripped, S_py)
       THEN OutM(f, m, 400, "MustEndWithPy")
       ELSE IF new_name = None THEN OutM(f, m, 400, "InvalidName")
       ELSE IF new_path = None THEN OutM(f, m, 400, "InvalidPath")
       ELSE IF Exists(f, new_path) /\ new_path # script_path
       THEN OutM(f, m, 400, "Conflict")
       ELSE IF IsActivePath(f, script_path) THEN OutM(f, m, 400, "ActiveScriptLocked")
       ELSE OutM(RenameEntry(f, script_path, new_path), MoveMeta(m, name, new_name), 200, "")

(***************************************************************************)
(* DELETE /api/bootstrap-script/<filename>                                 *)
(***************************************************************************)
delete_bootstrap_script(f, filename) ==
    LET name == validate_filename_for_api(filename)
        script_path == safe_path_join(f, name)
    IN IF name = None THEN Out(f, 400, "InvalidFilename")
       ELSE IF script_path = None THEN Out(f, 400, "InvalidPath")
       ELSE IF ~Exists(f, script_path) \/ ~EndsWith(script_path, S_py)
       THEN Out(f, 404, "NotFound")
       ELSE IF /\ name = BOOTSTRAP_SCRIPT
               /\ Exists(f, BOOTSTRAP_SCRIPT)
               /\ ~IsSymlink(f, BOOTSTRAP_SCRIPT)
       THEN Out(f, 400, "ActiveScriptLocked")
       ELSE IF IsActivePath(f, script_path) THEN Out(f, 400, "ActiveScriptLocked")
       ELSE Out(Unlink(f, script_path), 200, "")

(***************************************************************************)
(* POST /api/bootstrap-script/backup/<filename>/restore                    *)
(***************************************************************************)
\* str.replace(p, '')
RECURSIVE RemoveSub(_, _)
RemoveSub(s, p) ==
    IF s = <<>> THEN <<>>
    ELSE IF StartsWith(s, p) THEN RemoveSub(SubSeq(s, Len(p) + 1, Len(s)), p)
    ELSE <<Head(s)>> \o RemoveSub(Tail(s), p)

DigitVal(c) == CHOOSE d \in 0..9 : DigitChars[d + 1] = c

RECURSIVE DigitsValue(_, _)
DigitsValue(s, acc) ==
    IF s = <<>> THEN acc
    ELSE IF Head(s) = "_" THEN DigitsValue(Tail(s), acc)
    ELSE DigitsValue(Tail(s), 10 * acc + DigitVal(Head(s)))

\* int(s): an optional sign, then digits with single underscores between them
IntParses(s) ==
    LET body == IF s # <<>> /\ Head(s) \in {"-", "+"} THEN Tail(s) ELSE s
    IN /\ body # <<>>
       /\ body[1] \in Digits
       /\ body[Len(body)] \in Digits
       /\ \A i \in 1..Len(body) : body[i] \in Digits \cup {"_"}
       /\ \A i \in 1..(Len(body) - 1) : ~(body[i] = "_" /\ body[i + 1] = "_")

IntValue(s) ==
    IF Head(s) = "-" THEN 0 - DigitsValue(Tail(s), 0)
    ELSE IF Head(s) = "+" THEN DigitsValue(Tail(s), 0)
    ELSE DigitsValue(s, 0)

\* the civil date of a day number (days since 1970-01-01), proleptic Gregorian
CivilFromDays(days) ==
    LET z == days + 719468
        era == z \div 146097
        doe == z - era * 146097
        yoe == (doe - doe \div 1460 + doe \div 36524 - doe \div 146096) \div 365
        doy == doe - (365 * yoe + yoe \div 4 - yoe \div 100)
        mp == (5 * doy + 2) \div 153
        d == doy - (153 * mp + 2) \div 5 + 1
        m == IF mp < 10 THEN mp + 3 ELSE mp - 9
        y == yoe + era * 400 + (IF m <= 2 THEN 1 ELSE 0)
    IN [year |-> y, month |-> m, day |-> d]

\* datetime.fromtimestamp(t) raises outside the years 1..9999 (local time is UTC)
DateTimeOk(t) ==
    LET y == CivilFromDays(t \div 86400).year IN y >= 1 /\ y <= 9999

\* dt.strftime('%Y%m%d_%H%M%S')
StrfTime(t) ==
    LET date == CivilFromDays(t \div 86400)
        secs == t % 86400
    IN Dec(date.year) \o Dec2(date.month) \o Dec2(date.day) \o <<"_">>
       \o Dec2(secs \div 3600) \o Dec2((secs % 3600) \div 60) \o Dec2(secs % 60)

\* lines 1099-1105: the name of the restored script; t is time.time()
RestoredName(filename, t) ==
    LET timestamp_str == RemoveSub(RemoveSub(filename, S_bootstrap_backup_), S_py)
    IN IF IntParses(timestamp_str) /\ DateTimeOk(IntValue(timestamp_str))
       THEN S_bootstrap \o S_restored_ \o StrfTime(IntValue(timestamp_str)) \o S_py
       ELSE S_bootstrap \o S_restored_ \o Dec(IntSeconds(t)) \o S_py

restore_backup_script(f, filename, restore_as, t) ==
    LET name == sanitize_filename(filename)
        backup_path == safe_path_join(f, name)
        new_path == safe_path_join(f, RestoredName(filename, t))
    IN IF ~StartsWith(filename, S_bootstrap_backup_) \/ ~EndsWith(filename, S_py)
       THEN Out(f, 400, "InvalidBackupFilename")
       ELSE IF name = None THEN Out(f, 400, "InvalidBackupFilename")
       ELSE IF backup_path = None THEN Out(f, 400, "InvalidPath")
       ELSE IF ~Exists(f, backup_path) THEN Out(f, 404, "NotFound")
       ELSE IF restore_as = "active"
       THEN IF SameFile(f, backup_path, BOOTSTRAP_SCRIPT) THEN Out(f, 500, "Exception")
            ELSE Out(Copy2(f, backup_path, BOOTSTRAP_SCRIPT), 200, "")
       ELSE IF new_path = None THEN Out(f, 400, "InvalidPath")
       ELSE IF SameFile(f, backup_path, new_path) THEN Out(f, 500, "Exception")
       ELSE Out(Copy2(f, backup_path, new_path), 200, "")

(***************************************************************************)
(* POST /api/bootstrap-script/upload; t is the time of the write           *)
(***************************************************************************)
\* lines 1141-1153: the name the upload is stored under, or None
UploadName(original_filename) ==
    IF sanitize_filename(original_filename) # None THEN sanitize_filename(original_filename)
    ELSE IF ~StartsWith(original_filename, S_bootstrap)
    THEN sanitize_filename(S_bootstrap_ \o original_filename)
    ELSE sanitize_filename(original_filename)

upload_bootstrap_script(f, original_filename, content, t) ==
    LET filename == UploadName(original_filename)
        file_path == safe_path_join(f, filename)
    IN IF original_filename = <<>> THEN Out(f, 400, "NoFile")
       ELSE IF ~EndsWith(original_filename, S_py) THEN Out(f, 400, "MustBePy")
       ELSE IF filename = None THEN Out(f, 400, "InvalidName")
       ELSE IF file_path = None THEN Out(f, 400, "InvalidPath")
       ELSE Out(WriteThrough(f, file_path, content, t), 200, "")

(***************************************************************************)
(* GET /api/bootstrap-scripts/backups: the names of the response's entries *)
(* (a backup whose stat() fails is skipped); the handler writes nothing.   *)
(***************************************************************************)
list_backup_scripts(f) == {n \in GlobBackups(f) : Exists(f, n)}

(***************************************************************************)
(* Initial directories and request inputs.                                 *)
(*                                                                         *)
(* An initial directory is one the handlers themselves produce: the        *)
(* script bootstrap2.py, k backups bootstrap_backup_<i>.py of earlier      *)
(* pointers, each with the modification time its name is derived from,     *)
(* and the pointer bootstrap.py in one of its three conditions: a regular  *)
(* file newer than every backup (a fresh upload), a symlink to             *)
(* bootstrap2.py (after Activate("bootstrap2.py")), or a regular file that *)
(* is a copy of bootstrap2.py, older than every backup (after a following  *)
(* Activate("bootstrap.py")).                                              *)
(***************************************************************************)
N_bootstrap2 == S_bootstrap \o <<"2">> \o S_py
N_bootstrap_prod == S_bootstrap_ \o <<"p","r","o","d">> \o S_py
N_prod == <<"p","r","o","d">>
N_prod_py == N_prod \o S_py
N_backup_x == S_bootstrap_backup_ \o <<"x">> \o S_py
N_backup_1 == BackupName(TicksPerSecond)
N_backup_2 == BackupName(2 * TicksPerSecond)

InitNow == (KEEP + 1) * TicksPerSecond
\* the readings of time.time() and the write times: the wall clock is not
\* monotonic
Clock == InitNow..(InitNow + MaxTicks)

SeedBackups(k) ==
    {<<BackupName(i * TicksPerSecond), File(1 + (i % 2), i * TicksPerSecond)>> : i \in 1..k}

SeedPointers == {File(1, InitNow), Link(N_bootstrap2), File(2, 0)}

SeedDir(k, pointer) ==
    LET B == SeedBackups(k)
        names == {b[1] : b \in B}
    IN [n \in names \cup {BOOTSTRAP_SCRIPT, N_bootstrap2} |->
            IF n = BOOTSTRAP_SCRIPT THEN pointer
            ELSE IF n = N_bootstrap2 THEN File(2, 0)
            ELSE (CHOOSE b \in B : b[1] = n)[2]]

SeedCounts == {0, KEEP}

SeedMeta ==
    (N_bootstrap2 :> [serve_as_filename |-> TRUE])
        @@ (BOOTSTRAP_SCRIPT :> [serve_as_filename |-> FALSE])

\* the <filename> of the request URLs, per handler
ActivateNames == {BOOTSTRAP_SCRIPT, N_bootstrap2, N_backup_1, N_prod_py}
RenameNames == {BOOTSTRAP_SCRIPT, N_bootstrap2}
DeleteNames == {BOOTSTRAP_SCRIPT, N_bootstrap2, N_backup_1}
RestoreNames == {N_backup_1, N_backup_2, N_backup_x}
GetNames == {BOOTSTRAP_SCRIPT, N_bootstrap2}
UrlNames == ActivateNames \cup RenameNames \cup DeleteNames \cup RestoreNames \cup GetNames
\* the new_name of a rename request
NewNames == {N_prod, N_prod_py, N_backup_x}
\* the filename of an uploaded file
UploadNames == {BOOTSTRAP_SCRIPT, N_prod_py}
RestoreModes == {"active", "new"}

\* the record of the last request: the handler, the <filename> of its URL, its
\* further input (the new name of a rename, the mode of a restore) or, for Get,
\* the isActive flag returned, and the response
Done(kind, name, arg, r) ==
    [kind |-> kind, name |-> name, arg |-> arg, status |-> r.status, err |-> r.err]

\* a dict without keys
EmptyMap == [k \in {} |-> 0]

(***************************************************************************)
(* Authentication: sessions, CSRF tokens and the login rate limit.         *)
(*                                                                         *)
(* The Flask session is a signed cookie: a dict, here a function from the  *)
(* keys it has to their values.  A CSRF token is a number, a fresh one for *)
(* each token generated; 0 stands for no token in the request.             *)
(***************************************************************************)
\* 15 minutes
Window == 900
\* failed attempts that lock an address out
MaxAttempts == 5
\* 'session_timeout': 3600
SessionTimeout == 3600

\* to_remove: the addresses whose reset_time is more than Window seconds ago
clean_old_attempts(attempts, now) ==
    LET cutoff == now - Window
    IN [ip \in {ip \in DOMAIN attempts : ~(attempts[ip].reset_time < cutoff)} |->
            attempts[ip]]

\* the lock when the count alone decides, whatever the time
is_rate_limited_by_count(attempts, ip, now) ==
    LET cleaned == clean_old_attempts(attempts, now)
    IN ip \in DOMAIN cleaned /\ cleaned[ip].attempts >= MaxAttempts

is_rate_limited(attempts, ip, now) ==
    LET cleaned == clean_old_attempts(attempts, now)
    IN /\ ip \in DOMAIN cleaned
       /\ cleaned[ip].attempts >= MaxAttempts
       /\ now < cleaned[ip].reset_time

\* login_attempts after record_login_attempt(ip, success) at the time now
record_login_attempt(attempts, ip, success, now) ==
    LET cleaned == clean_old_attempts(attempts, now)
        entry == IF ip \in DOMAIN cleaned THEN cleaned[ip]
                 ELSE [attempts |-> 0, reset_time |-> now + Window]
        counted == [entry EXCEPT !.attempts = @ + 1]
    IN IF success THEN [a \in DOMAIN cleaned \ {ip} |-> cleaned[a]]
       ELSE (ip :> (IF counted.attempts = 1
                    THEN [counted EXCEPT !.reset_time = now + Window]
                    ELSE counted)) @@ cleaned

\* is_authenticated(): the answer and the session afterwards (an expired
\* session is cleared)
is_authenticated(s, now) ==
    IF "authenticated" \notin DOMAIN s THEN [ok |-> FALSE, session |-> s]
    ELSE IF ~s["authenticated"] THEN [ok |-> FALSE, session |-> s]
    ELSE IF "expires_at" \in DOMAIN s /\ now > s["expires_at"]
    THEN [ok |-> FALSE, session |-> EmptyMap]
    ELSE [ok |-> TRUE, session |-> s]

validate_csrf_token(s, token) ==
    "csrf_token" \in DOMAIN s /\ s["csrf_token"] = token

\* the decorator without the CSRF check
require_auth_no_csrf(s, token, now) ==
    LET a == is_authenticated(s, now)
    IN IF ~a.ok THEN [status |-> 401, err |-> "AUTH_REQUIRED", session |-> a.session]
       ELSE [status |-> 200, err |-> "", session |-> a.session]

\* the decorator of the write endpoints, all of them POST or DELETE: the
\* refusal, or status 200 when the handler is called
require_auth(s, token, now) ==
    LET a == is_authenticated(s, now)
    IN IF ~a.ok THEN [status |-> 401, err |-> "AUTH_REQUIRED", session |-> a.session]
       ELSE IF token = 0 \/ ~validate_csrf_token(a.session, token)
       THEN [status |-> 403, err |-> "CSRF_ERROR", session |-> a.session]
       ELSE [status |-> 200, err |-> "", session |-> a.session]

\* the session of a successful login at the time now; generate_csrf_token
\* keeps the token the session has and else draws the fresh one
LoggedIn(s, now, fresh) ==
    [k \in DOMAIN s \cup {"authenticated", "login_time", "expires_at", "csrf_token"} |->
        IF k = "authenticated" THEN TRUE
        ELSE IF k = "login_time" THEN now
        ELSE IF k = "expires_at" THEN now + SessionTimeout
        ELSE IF k = "csrf_token" /\ k \notin DOMAIN s THEN fresh
        ELSE s[k]]

\* check_password_hash against the administrator's password
Passwords == {"admin-secret", "guess", "missing"}
password_valid(password) == password = "admin-secret"

\* auth_login, on an installation that has an administrator password: the
\* response, login_attempts and the session afterwards, and whether the
\* password was checked
auth_login(s, attempts, ip, password, now, fresh) ==
    IF is_rate_limited(attempts, ip, now)
    THEN [status |-> 429, code |-> "RATE_LIMITED", checked |-> FALSE, session |-> s,
          login_attempts |-> clean_old_attempts(attempts, now)]
    ELSE IF password = "missing"
    THEN [status |-> 400, code |-> "MISSING_PASSWORD", checked |-> FALSE, session |-> s,
          login_attempts |-> record_login_attempt(attempts, ip, FALSE, now)]
    ELSE IF password_valid(password)
    THEN [status |-> 200, code |-> "", checked |-> TRUE,
          session |-> LoggedIn(s, now, fresh),
          login_attempts |-> record_login_attempt(attempts, ip, TRUE, now)]
    ELSE [status |-> 401, code |-> "INVALID_PASSWORD", checked |-> TRUE, session |-> s,
          login_attempts |-> record_login_attempt(attempts, ip, FALSE, now)]

\* the threads of the server that run a Reconstructor pass
Workers == {1, 2}

\* a thread that is not in a pass
IdleJob ==
    [pc |-> "idle", connections |-> EmptyMap, ledger |-> [old |-> 0, lines |-> {}],
     lines |-> <<>>, hist |-> EmptyMap]

\* no request is between two of its steps
NoneInFlight ==
    /\ act = [pc |-> "idle", name |-> <<>>, source |-> <<>>]
    /\ jobs = [j \in Workers |-> IdleJob]

\* nobody has logged in
AuthIdle ==
    /\ session = EmptyMap
    /\ login_attempts = EmptyMap
    /\ clock = 0
    /\ aop = [kind |-> "Init", ip |-> "", cookie |-> "", token |-> 0,
              status |-> 200, code |-> "", checked |-> FALSE]
    /\ failed = EmptyMap
    /\ logins = 0
    /\ saved = EmptyMap

\* no access log yet, nothing persisted by the Reconstructor
LogIdle ==
    /\ log = <<>>
    /\ conn_file = EmptyMap
    /\ ledger_file = [old |-> 0, lines |-> {}]
    /\ ret = EmptyMap
    /\ hist = EmptyMap
    /\ lop = [kind |-> "Init", now |-> 0]
    /\ passes = 0

Init ==
    /\ \E k \in SeedCounts, pointer \in SeedPointers : fs = SeedDir(k, pointer)
    /\ meta = SeedMeta
    /\ requests = 0
    /\ op = [kind |-> "Init", name |-> <<>>, arg |-> <<>>, status |-> 200, err |-> ""]
    /\ LogIdle
    /\ AuthIdle
    /\ NoneInFlight

\* a mutating request is handled while the run's budget lasts
Handled ==
    /\ requests < MaxRequests
    /\ requests' = requests + 1
    /\ UNCHANGED <<lvars, avars, cvars>>

Activate(n) ==
    \E r \in set_active_script(fs, n) :
        /\ Handled
        /\ fs' = r.fs
        /\ op' = Done("Activate", n, <<>>, r)
        /\ UNCHANGED meta

Rename(n, new) ==
    LET r == rename_bootstrap_script(fs, meta, n, new)
    IN /\ Handled
       /\ fs' = r.fs
       /\ meta' = r.meta
       /\ op' = Done("Rename", n, new, r)

Delete(n) ==
    LET r == delete_bootstrap_script(fs, n)
    IN /\ Handled
       /\ fs' = r.fs
       /\ op' = Done("Delete", n, <<>>, r)
       /\ UNCHANGED meta

RestoreBackup(n, mode) ==
    \E t \in Clock :
        LET r == restore_backup_script(fs, n, mode, t)
        IN /\ Handled
           /\ fs' = r.fs
           /\ op' = Done("RestoreBackup", n, <<mode>>, r)
           /\ UNCHANGED meta

Upload(n, c) ==
    \E t \in Clock :
        LET r == upload_bootstrap_script(fs, n, c, t)
        IN /\ Handled
           /\ fs' = r.fs
           /\ op' = Done("Upload", n, <<>>, r)
           /\ UNCHANGED meta

Get(n) ==
    LET r == get_bootstrap_script(fs, n)
    IN /\ op' = Done("Get", n, IF r.status = 200 THEN <<r.active>> ELSE <<>>, r)
       /\ UNCHANGED <<fs, meta, requests, lvars, avars, cvars>>

\* the record holds the 'active' name of the response
List ==
    /\ op' = [kind |-> "List", name |-> list_bootstrap_scripts(fs).active, arg |-> <<>>,
              status |-> 200, err |-> ""]
    /\ UNCHANGED <<fs, meta, requests, lvars, avars, cvars>>

\* the record holds the number of backups of the response
ListBackups ==
    /\ op' = [kind |-> "ListBackups", name |-> <<>>,
              arg |-> <<Cardinality(list_backup_scripts(fs))>>,
              status |-> 200, err |-> ""]
    /\ UNCHANGED <<fs, meta, requests, lvars, avars, cvars>>

Next ==
    \/ \E n \in ActivateNames : Activate(n)
    \/ \E n \in RenameNames, new \in NewNames : Rename(n, new)
    \/ \E n \in DeleteNames : Delete(n)
    \/ \E n \in RestoreNames, mode \in RestoreModes : RestoreBackup(n, mode)
    \/ \E n \in UploadNames, c \in UploadContents : Upload(n, c)
    \/ \E n \in GetNames : Get(n)
    \/ List
    \/ ListBackups

Spec == Init /\ [][Next]_vars

\* Activate calls alone, observed through the read-only handlers
NextActivate ==
    \/ \E n \in ActivateNames : Activate(n)
    \/ \E n \in GetNames : Get(n)
    \/ List

SpecActivate == Init /\ [][NextActivate]_vars

(***************************************************************************)
(* Vocabulary of the properties.                                           *)
(***************************************************************************)
\* every name a request can carry in a state: the entries of the directory
\* and the fixed request names
AnyNames == DOMAIN fs \cup UrlNames

RegularPointer(f) == BOOTSTRAP_SCRIPT \in DOMAIN f /\ f[BOOTSTRAP_SCRIPT].kind = "file"

\* the name the pointer resolves to: bootstrap.py itself when it is a regular file
PointerName(f) ==
    IF IsSymlink(f, BOOTSTRAP_SCRIPT) THEN f[BOOTSTRAP_SCRIPT].target ELSE BOOTSTRAP_SCRIPT

\* the names List() reports with isActive = true, one per such entry
ActiveEntries(f) ==
    LET L == list_bootstrap_scripts(f).scripts
    IN {i \in 1..Len(L) : L[i].active}

ListMarksActive(f, n) ==
    LET L == list_bootstrap_scripts(f).scripts
    IN /\ \E i \in 1..Len(L) : L[i].name = n /\ L[i].active
       /\ \A i \in 1..Len(L) : L[i].active => L[i].name = n

\* the flag List() gives for a name it reports
ListFlag(f, n) ==
    LET L == list_bootstrap_scripts(f).scripts
    IN \E i \in 1..Len(L) : L[i].name = n /\ L[i].active

\* C1: after any sequence of Activate calls List() reports exactly one active
\* script, and it is the name the pointer resolves to.
C1_ExactlyOneActive ==
    LET L == list_bootstrap_scripts(fs).scripts
    IN /\ Cardinality(ActiveEntries(fs)) = 1
       /\ \A i \in ActiveEntries(fs) : L[i].name = PointerName(fs)

\* the backups other than b whose modification time is not older than m
NotOlderBackups(f, b, m) == {x \in GlobBackups(f) \ {b} : Stat(f, x).mtime >= m}

\* the outcome of Activate(n) on a regular-file pointer the claim C2 describes
C2_Post(f, n, r) ==
    LET old == f[BOOTSTRAP_SCRIPT]
        backup == BackupName(old.mtime)
    IN /\ r.status = 200
       /\ r.fs[BOOTSTRAP_SCRIPT] = Link(n)
       /\ backup \in DOMAIN r.fs
       /\ r.fs[backup].kind = "file"
       /\ r.fs[backup].content = old.content
       /\ ListMarksActive(r.fs, n)

\* C2 as stated: for every listed script other than bootstrap.py, Activate on
\* a regular-file pointer leaves the symlink, the backup bootstrap_backup_T.py
\* holding the old content, and the script marked active.
C2_Original ==
    [][(/\ op'.kind = "Activate"
        /\ requests' = requests + 1
        /\ op'.name \in Listed(fs) \ {BOOTSTRAP_SCRIPT}
        /\ RegularPointer(fs))
       => C2_Post(fs, op'.name, [fs |-> fs', status |-> op'.status])]_vars

\* C2 amended: the same, provided fewer than 5 other backups have a
\* modification time of T or later (otherwise pruning may remove the new one).
C2_BackupKept ==
    \A n \in Listed(fs) \ {BOOTSTRAP_SCRIPT} :
        (/\ RegularPointer(fs)
         /\ Cardinality(NotOlderBackups(fs, BackupName(fs[BOOTSTRAP_SCRIPT].mtime),
                                        fs[BOOTSTRAP_SCRIPT].mtime)) < KEEP)
        => \A r \in set_active_script(fs, n) : C2_Post(fs, n, r)

\* Scenario 1 has happened: the first request activated bootstrap2.py over the
\* regular-file pointer of a directory with 5 backups
C2_Witness ==
    /\ op = Done("Activate", N_bootstrap2, <<>>, Response(200, ""))
    /\ requests = 1
    /\ fs[BOOTSTRAP_SCRIPT] = Link(N_bootstrap2)
    /\ BackupName(InitNow) \in DOMAIN fs
    /\ fs[BackupName(InitNow)] = File(1, InitNow)
    /\ Cardinality(GlobBackups(fs)) = KEEP
    /\ ListMarksActive(fs, N_bootstrap2)

\* C3: a second consecutive Activate of the same (non-backup) name succeeds
\* and leaves the pointer and the active script as the first call left them.
C3_Idempotent ==
    [][(/\ op.kind = "Activate"
        /\ op.status = 200
        /\ ~IsBackupName(op.name)
        /\ op'.kind = "Activate"
        /\ op'.name = op.name
        /\ requests' = requests + 1)
       => (/\ op'.status = 200
           /\ fs'[BOOTSTRAP_SCRIPT].kind = fs[BOOTSTRAP_SCRIPT].kind
           /\ PointerName(fs') = PointerName(fs)
           /\ list_bootstrap_scripts(fs').active = list_bootstrap_scripts(fs).active)]_vars

\* C4: an Activate that moves a regular-file pointer into a backup leaves at
\* most 5 backup files.
C4_RotationKeepsFive ==
    \A n \in AnyNames :
        RegularPointer(fs) =>
            \A r \in set_active_script(fs, n) :
                (r.status = 200 /\ IsSymlink(r.fs, BOOTSTRAP_SCRIPT))
                => Cardinality(GlobBackups(r.fs)) <= KEEP

\* the first request was an Activate that rotated the pointer of a directory
\* holding 5 backups: the new backup is there and pruning removed the oldest
C4_Witness ==
    /\ op.kind = "Activate"
    /\ op.status = 200
    /\ requests = 1
    /\ IsSymlink(fs, BOOTSTRAP_SCRIPT)
    /\ BackupName(InitNow) \in DOMAIN fs
    /\ N_backup_1 \notin DOMAIN fs
    /\ Cardinality(GlobBackups(fs)) = KEEP

\* C5: in every reachable state at most 5 backup files exist.
C5_AtMostFiveBackups == Cardinality(GlobBackups(fs)) <= KEEP

\* the names that denote the active script: the pointer itself and the name
\* it resolves to
ActiveNames(f) == {BOOTSTRAP_SCRIPT, PointerName(f)}

\* C6: Delete of the active script (the pointer or the pointer's target) is
\* refused and removes nothing; while the pointer resolves the refusal is the
\* lock, and bootstrap.py as a regular file is always locked.
C6_DeleteActiveRefused ==
    \A n \in AnyNames :
        LET r == delete_bootstrap_script(fs, n)
        IN (/\ BOOTSTRAP_SCRIPT \in DOMAIN fs
            /\ validate_filename_for_api(n) \in ActiveNames(fs))
           => (/\ r.status # 200
               /\ r.fs = fs
               /\ Exists(fs, BOOTSTRAP_SCRIPT)
                  => (r.status = 400 /\ r.err = "ActiveScriptLocked"))

\* a Delete of the pointer's target has been refused
C6_Witness ==
    /\ op = Done("Delete", N_bootstrap2, <<>>, Response(400, "ActiveScriptLocked"))
    /\ fs[BOOTSTRAP_SCRIPT] = Link(N_bootstrap2)
    /\ N_bootstrap2 \in DOMAIN fs

\* new names a rename request can carry, valid and invalid
AnyNewNames == NewNames \cup {N_bootstrap_prod, N_bootstrap2, BOOTSTRAP_SCRIPT}

\* C7: Rename of the active script (the pointer or the pointer's target) is
\* refused for every new name and changes neither the directory nor the
\* metadata; with a valid, free new name the refusal is the lock.
C7_RenameActiveRefused ==
    \A n \in AnyNames : \A new \in AnyNewNames :
        LET r == rename_bootstrap_script(fs, meta, n, new)
            nn == NormalizeNewName(Strip(new))
        IN (/\ BOOTSTRAP_SCRIPT \in DOMAIN fs
            /\ validate_filename_for_api(n) \in ActiveNames(fs))
           => (/\ r.status # 200
               /\ r.fs = fs
               /\ r.meta = meta
               /\ (/\ Exists(fs, BOOTSTRAP_SCRIPT)
                   /\ nn # None
                   /\ nn \notin DOMAIN fs)
                  => (r.status = 400 /\ r.err = "ActiveScriptLocked"))

\* a Rename of the pointer's target has been refused
C7_Witness ==
    /\ op = Done("Rename", N_bootstrap2, N_prod_py, Response(400, "ActiveScriptLocked"))
    /\ fs[BOOTSTRAP_SCRIPT] = Link(N_bootstrap2)
    /\ N_bootstrap2 \in DOMAIN fs

\* Rename(bootstrap2.py, new) moved the file to bootstrap_prod.py
C8_Renamed(f, r) ==
    /\ r.status = 200
    /\ N_bootstrap_prod \in DOMAIN r.fs
    /\ r.fs[N_bootstrap_prod] = f[N_bootstrap2]
    /\ N_bootstrap2 \notin DOMAIN r.fs

C8_Pre(f) ==
    /\ Exists(f, N_bootstrap2)
    /\ ~IsActivePath(f, N_bootstrap2)
    /\ N_bootstrap_prod \notin DOMAIN f

\* C8 as stated: Rename("bootstrap2.py", "prod") is normalised to
\* bootstrap_prod.py and succeeds when bootstrap2.py is not active and
\* bootstrap_prod.py does not exist.
C8_Original ==
    [][(/\ op'.kind = "Rename"
        /\ op'.name = N_bootstrap2
        /\ op'.arg = N_prod
        /\ requests' = requests + 1
        /\ C8_Pre(fs))
       => C8_Renamed(fs, [fs |-> fs', status |-> op'.status])]_vars

\* C8 amended: a new name that ends in .py and lacks the bootstrap prefix gets
\* "bootstrap_" prepended, so Rename("bootstrap2.py", "prod.py") succeeds as
\* bootstrap_prod.py; a new name without the extension ("prod") is refused.
C8_PrefixApplied ==
    /\ NormalizeNewName(N_prod_py) = N_bootstrap_prod
    /\ C8_Pre(fs) =>
        /\ C8_Renamed(fs, rename_bootstrap_script(fs, meta, N_bootstrap2, N_prod_py))
        /\ rename_bootstrap_script(fs, meta, N_bootstrap2, N_prod).status = 400
        /\ rename_bootstrap_script(fs, meta, N_bootstrap2, N_prod).fs = fs

\* the first request renamed bootstrap2.py and bootstrap_prod.py is there
C8_Witness ==
    /\ op = Done("Rename", N_bootstrap2, N_prod_py, Response(200, ""))
    /\ requests = 1
    /\ N_bootstrap_prod \in DOMAIN fs
    /\ fs[N_bootstrap_prod] = File(2, 0)
    /\ N_bootstrap2 \notin DOMAIN fs

\* what C9 says of a name Get() answers for: the flag is set exactly when the
\* name is the one the pointer resolves to, as in the entry List() has for it
C9_Flag(f, name, active) ==
    /\ active = (BOOTSTRAP_SCRIPT \in DOMAIN f /\ name = PointerName(f))
    /\ name \in Listed(f) => active = ListFlag(f, name)

\* C9: Get(name) reports isActive exactly when name is the name the pointer
\* resolves to, which is also the flag List() gives for the name.
C9_GetAgreesWithList ==
    (op.kind = "Get" /\ op.status = 200) =>
        C9_Flag(fs, validate_filename_for_api(op.name), op.arg[1])

\* C10: Activate("bootstrap.py") on a symlink pointer with an existing target X
\* leaves bootstrap.py a regular file with X's content, X unchanged and the
\* backups as they were.
C10_Promote ==
    (IsSymlink(fs, BOOTSTRAP_SCRIPT) /\ Exists(fs, BOOTSTRAP_SCRIPT)) =>
        LET X == PointerName(fs)
        IN \A r \in set_active_script(fs, BOOTSTRAP_SCRIPT) :
            /\ r.status = 200
            /\ r.fs[BOOTSTRAP_SCRIPT].kind = "file"
            /\ r.fs[BOOTSTRAP_SCRIPT].content = fs[X].content
            /\ X \in DOMAIN r.fs
            /\ r.fs[X] = fs[X]
            /\ GlobBackups(r.fs) = GlobBackups(fs)
            /\ \A b \in GlobBackups(fs) : r.fs[b] = fs[b]

\* bootstrap2.py has been promoted: the pointer was a symlink to it and is now
\* a regular file with its content
C10_Witness ==
    /\ op = Done("Activate", BOOTSTRAP_SCRIPT, <<>>, Response(200, ""))
    /\ fs[BOOTSTRAP_SCRIPT] = File(2, 0)
    /\ fs[N_bootstrap2] = File(2, 0)

\* what a reader of the pointer sees: the entry bootstrap.py itself (its kind
\* and target, or its content) and the bytes that reading it yields
PointerView(f) ==
    [entry |-> IF BOOTSTRAP_SCRIPT \in DOMAIN f THEN <<f[BOOTSTRAP_SCRIPT]>> ELSE <<>>,
     bytes |-> IF Exists(f, BOOTSTRAP_SCRIPT) THEN <<Stat(f, BOOTSTRAP_SCRIPT).content>>
               ELSE <<>>]

\* C11: Rename, Delete, RestoreBackup, List, Get and ListBackups never add a
\* bootstrap_backup_*.py file and never change the pointer's kind, target or
\* content.
C11_OnlyActivateTouchesPointer ==
    [][op'.kind \in {"Rename", "Delete", "RestoreBackup", "List", "Get", "ListBackups"}
       => (/\ GlobBackups(fs') \subseteq GlobBackups(fs)
           /\ PointerView(fs') = PointerView(fs))]_vars

\* the entries named bootstrap.py in the result of List()
PointerEntries(f) ==
    LET L == list_bootstrap_scripts(f).scripts
    IN {i \in 1..Len(L) : L[i].name = BOOTSTRAP_SCRIPT}

\* C12: whenever bootstrap.py is in the directory, as a regular file or as a
\* symlink, List() has exactly one entry named bootstrap.py.
C12_PointerListedOnce ==
    BOOTSTRAP_SCRIPT \in DOMAIN fs => Cardinality(PointerEntries(fs)) = 1

\* C13: after RestoreBackup(name, mode=active) on an existing backup, reading
\* bootstrap.py yields the backup's content, the backup files are the ones
\* there were before (none was added, none was pruned) and the source backup
\* is as it was.
C13_RestoreActive ==
    [][(/\ op'.kind = "RestoreBackup"
        /\ op'.arg = <<"active">>
        /\ IsBackupName(op'.name)
        /\ Exists(fs, op'.name))
       => (/\ PointerView(fs').bytes = <<Stat(fs, op'.name).content>>
           /\ GlobBackups(fs') = GlobBackups(fs)
           /\ op'.name \in DOMAIN fs'
           /\ fs'[op'.name] = fs[op'.name])]_vars

(***************************************************************************)
(* Device-connection Reconstructor: parse_nginx_access_log.                *)
(*                                                                         *)
(* A log line is the record of what the line's text holds: whether it      *)
(* matches the access-log grammar, and the client address, the bracketed   *)
(* time, the path, the status and the user agent of a line that does.      *)
(* Times are seconds since the epoch; the server's time zone is UTC.       *)
(***************************************************************************)
\* lines[-1000:]
TailWindow == 1000
\* the ledger keeps 2000 lines
LedgerCap == 2000
\* requests less than 300 seconds after the session's end extend the session
SessionGap == 300
\* device['sessions'][-50:]
MaxSessions == 50
\* devices not seen for 24 hours are dropped
Retention == 86400
SecondsPerDay == 86400

\* %b of strptime
Months == <<"Jan", "Feb", "Mar", "Apr", "May", "Jun",
            "Jul", "Aug", "Sep", "Oct", "Nov", "Dec">>
MonthOf(name) == IF \E i \in 1..12 : Months[i] = name
                 THEN CHOOSE i \in 1..12 : Months[i] = name ELSE 0

IsLeap(y) == y % 4 = 0 /\ (y % 100 # 0 \/ y % 400 = 0)
DaysInMonth(y, m) ==
    IF m = 2 THEN (IF IsLeap(y) THEN 29 ELSE 28)
    ELSE IF m \in {4, 6, 9, 11} THEN 30 ELSE 31

\* the bracketed time of a line, 08/Nov/2025:12:00:00
Date(day, mon, year, hh, mi, ss) ==
    [day |-> day, mon |-> mon, year |-> year, hh |-> hh, mi |-> mi, ss |-> ss]

\* datetime.strptime(text, '%d/%b/%Y:%H:%M:%S') does not raise
StrpOk(t) ==
    /\ MonthOf(t.mon) # 0
    /\ t.year \in 1..9999
    /\ t.day \in 1..DaysInMonth(t.year, MonthOf(t.mon))
    /\ t.hh \in 0..23
    /\ t.mi \in 0..59
    /\ t.ss \in 0..59

\* days from 1970-01-01 to the date of the proleptic Gregorian calendar
DaysFromCivil(y, m, d) ==
    LET yy == IF m <= 2 THEN y - 1 ELSE y
        era == yy \div 400
        yoe == yy - era * 400
        mp == IF m > 2 THEN m - 3 ELSE m + 9
        doy == (153 * mp + 2) \div 5 + d - 1
        doe == yoe * 365 + yoe \div 4 - yoe \div 100 + doy
    IN era * 146097 + doe - 719468

\* dt.timestamp()
Timestamp(t) ==
    DaysFromCivil(t.year, MonthOf(t.mon), t.day) * SecondsPerDay
        + t.hh * 3600 + t.mi * 60 + t.ss

\* form "ok": the text matches the grammar; "lead": the same text after
\* leading white space, which re.match (applied to the unstripped line) does
\* not match; "garbage": any other text
LogLine(form, ip, time, path, status, ua) ==
    [form |-> form, ip |-> ip, time |-> time, path |-> path, status |-> status, ua |-> ua]

\* line.strip(), the text the ledger holds
line_stripped(line) == IF line.form = "lead" THEN [line EXCEPT !.form = "ok"] ELSE line

\* re.match(...) on the line
Matches(line) == line.form = "ok"

P_root == <<"/">>
P_bootstrap == <<"/">> \o BOOTSTRAP_SCRIPT
P_health == <<"/", "h", "e", "a", "l", "t", "h">>
P_ui == <<"/", "u", "i">>
P_api == <<"/", "a", "p", "i">>
P_other == <<"/", "x">>
P_nested == P_other \o P_api \o <<"/", "y">>

UA_arista == <<"A", "r", "i", "s", "t", "a", "-", "Z", "T", "P">>
UA_browser == <<"M", "o", "z", "i", "l", "l", "a">>
UA_curl == <<"c", "u", "r", "l">>

is_browser(user_agent) ==
    \/ Contains(user_agent, <<"M", "o", "z", "i", "l", "l", "a">>)
    \/ Contains(user_agent, <<"G", "e", "c", "k", "o">>)
    \/ Contains(user_agent, <<"C", "h", "r", "o", "m", "e">>)
    \/ Contains(user_agent, <<"S", "a", "f", "a", "r", "i">>)

is_arista_device(user_agent) ==
    \/ Contains(user_agent, <<"A", "r", "i", "s", "t", "a">>)
    \/ Contains(user_agent, <<"E", "O", "S">>)
    \/ Contains(user_agent, <<"Z", "T", "P">>)

is_bootstrap_path(path) == path = P_bootstrap \/ path = P_root

\* the exclusion when only the paths that start with /api/ count as the
\* panel's own
Excluded_prefix_only(line) ==
    /\ ~is_arista_device(line.ua)
    /\ ~is_bootstrap_path(line.path)
    /\ \/ line.path \in {P_health, P_ui, P_api}
       \/ StartsWith(line.path, P_ui \o <<"/">>)
       \/ StartsWith(line.path, P_api \o <<"/">>)
       \/ (is_browser(line.ua) /\ ~is_bootstrap_path(line.path))

\* the line is marked processed but not counted
Excluded(line) ==
    /\ ~is_arista_device(line.ua)
    /\ ~is_bootstrap_path(line.path)
    /\ \/ line.path \in {P_health, P_ui, P_api}
       \/ StartsWith(line.path, P_ui \o <<"/">>)
       \/ StartsWith(line.path, P_api \o <<"/">>)
       \/ Contains(line.path, P_api \o <<"/">>)
       \/ (is_browser(line.ua) /\ ~is_bootstrap_path(line.path))

\* a request for /bootstrap.py whatever its status
IsDownload_any_status(path, status) ==
    path = P_bootstrap \/ (path = P_root /\ status = 200)

\* a status-200 request for /bootstrap.py or for /
IsDownload(path, status) ==
    (path = P_bootstrap \/ (path = P_root /\ status = 200)) /\ status = 200

\* the entry of an address seen for the first time; bootstrap_download_time
\* is <<>> for None and <<t>> for the time t
NewDevice(ip, timestamp, user_agent) ==
    [ip |-> ip,
     first_seen |-> timestamp,
     last_seen |-> timestamp,
     bootstrap_downloaded |-> FALSE,
     bootstrap_download_time |-> <<>>,
     session_start |-> timestamp,
     session_end |-> timestamp,
     total_requests |-> 0,
     user_agent |-> user_agent,
     sessions |-> <<>>]

NewSession(timestamp) == [start |-> timestamp, end |-> timestamp, requests |-> 1]

\* the session list when a request exactly SessionGap seconds after the
\* session's end still extends the session
FoldSessions_inclusive_gap(sessions, timestamp) ==
    LET n == Len(sessions)
    IN IF n > 0
       THEN IF timestamp - sessions[n].end <= SessionGap
            THEN [sessions EXCEPT ![n] = [@ EXCEPT !.end = timestamp,
                                                   !.requests = @ + 1]]
            ELSE Append(sessions, NewSession(timestamp))
       ELSE <<NewSession(timestamp)>>

\* the session list when the cap keeps the first MaxSessions sessions
FoldSessions_keeps_oldest(sessions, timestamp) ==
    LET n == Len(sessions)
        folded ==
            IF n > 0
            THEN IF timestamp - sessions[n].end < SessionGap
                 THEN [sessions EXCEPT ![n] = [@ EXCEPT !.end = timestamp,
                                                        !.requests = @ + 1]]
                 ELSE Append(sessions, NewSession(timestamp))
            ELSE <<NewSession(timestamp)>>
    IN IF Len(folded) > MaxSessions
       THEN SubSeq(folded, 1, MaxSessions)
       ELSE folded

\* the session list when a request that extends a session is not counted in it
FoldSessions_merge_uncounted(sessions, timestamp) ==
    LET n == Len(sessions)
        folded ==
            IF n > 0
            THEN IF timestamp - sessions[n].end < SessionGap
                 THEN [sessions EXCEPT ![n] = [@ EXCEPT !.end = timestamp]]
                 ELSE Append(sessions, NewSession(timestamp))
            ELSE <<NewSession(timestamp)>>
    IN IF Len(folded) > MaxSessions
       THEN SubSeq(folded, Len(folded) - MaxSessions + 1, Len(folded))
       ELSE folded

\* the session list after a request at the timestamp
FoldSessions(sessions, timestamp) ==
    LET n == Len(sessions)
        folded ==
            IF n > 0
            THEN IF timestamp - sessions[n].end < SessionGap
                 THEN [sessions EXCEPT ![n] = [@ EXCEPT !.end = timestamp,
                                                        !.requests = @ + 1]]
                 ELSE Append(sessions, NewSession(timestamp))
            ELSE <<NewSession(timestamp)>>
    IN IF Len(folded) > MaxSessions
       THEN SubSeq(folded, Len(folded) - MaxSessions + 1, Len(folded))
       ELSE folded

\* "not device['bootstrap_download_time'] or timestamp > ...": None and 0.0
\* are both false
LaterDownload(time, timestamp) ==
    time = <<>> \/ time[1] = 0 \/ timestamp > time[1]

\* the updates of the device's entry for one line
FoldDevice(device, line, timestamp) ==
    LET dl == IsDownload(line.path, line.status)
    IN [device EXCEPT
          !.last_seen = timestamp,
          !.total_requests = @ + 1,
          !.bootstrap_downloaded = IF dl THEN TRUE ELSE @,
          !.bootstrap_download_time =
              IF dl /\ LaterDownload(@, timestamp) THEN <<timestamp>> ELSE @,
          !.sessions = FoldSessions(@, timestamp)]

\* the body of the loop for a line that is counted
FoldLine(connections, line) ==
    LET timestamp == Timestamp(line.time)
        device == IF line.ip \in DOMAIN connections THEN connections[line.ip]
                  ELSE NewDevice(line.ip, timestamp, line.ua)
    IN (line.ip :> FoldDevice(device, line, timestamp)) @@ connections

\* history: the lines folded into the device since its entry was created
Remember(h, connections, line) ==
    (line.ip :> (IF line.ip \in DOMAIN connections THEN Append(h[line.ip], line)
                 ELSE <<line>>)) @@ h

\* the turn of the loop when a line whose time does not parse is marked
\* processed like the others
FoldStep_marks_unparsed(line, processed_lines, connections, new_processed_lines, h) ==
    LET key == line_stripped(line)
    IN IF key \in processed_lines \/ ~Matches(line) \/ Excluded(line)
            \/ ~StrpOk(line.time)
       THEN [connections |-> connections,
             new_processed_lines |-> new_processed_lines \cup {key}, hist |-> h]
       ELSE [connections |-> FoldLine(connections, line),
             new_processed_lines |-> new_processed_lines \cup {key},
             hist |-> Remember(h, connections, line)]

\* one turn of the loop over recent_lines: a line that is in the ledger, does
\* not match the grammar or is excluded is marked processed; a line whose
\* time does not parse is passed over; any other line is folded and marked
FoldStep(line, processed_lines, connections, new_processed_lines, h) ==
    LET key == line_stripped(line)
    IN IF key \in processed_lines \/ ~Matches(line) \/ Excluded(line)
       THEN [connections |-> connections,
             new_processed_lines |-> new_processed_lines \cup {key}, hist |-> h]
       ELSE IF ~StrpOk(line.time)
       THEN [connections |-> connections,
             new_processed_lines |-> new_processed_lines, hist |-> h]
       ELSE [connections |-> FoldLine(connections, line),
             new_processed_lines |-> new_processed_lines \cup {key},
             hist |-> Remember(h, connections, line)]

\* the loop over recent_lines
RECURSIVE FoldLines(_, _, _, _, _)
FoldLines(lines, processed_lines, connections, new_processed_lines, h) ==
    IF lines = <<>>
    THEN [connections |-> connections, new_processed_lines |-> new_processed_lines,
          hist |-> h]
    ELSE LET r == FoldStep(Head(lines), processed_lines, connections,
                           new_processed_lines, h)
         IN FoldLines(Tail(lines), processed_lines, r.connections,
                      r.new_processed_lines, r.hist)

\* the last 1000 lines of the log
recent_lines(lines) ==
    IF Len(lines) > TailWindow
    THEN SubSeq(lines, Len(lines) - TailWindow + 1, Len(lines)) ELSE lines

(***************************************************************************)
(* The ledger file holds the lines of the current log it names and `old`   *)
(* further lines, of earlier logs, that no line of the current log equals. *)
(* set(list(all_processed)[-2000:]) keeps 2000 elements of a set in the    *)
(* set's iteration order, which is arbitrary: any choice can be dropped.   *)
(***************************************************************************)
all_processed(ledger, new_processed_lines) ==
    LET named == ledger.lines \cup new_processed_lines
        excess == ledger.old + Cardinality(named) - LedgerCap
    IN IF excess <= 0 THEN {[old |-> ledger.old, lines |-> named]}
       ELSE {[old |-> ledger.old - (excess - Cardinality(D)), lines |-> named \ D] :
                D \in {D \in SUBSET named :
                          /\ Cardinality(D) <= excess
                          /\ excess - Cardinality(D) <= ledger.old}}

\* the devices seen in the last 24 hours
Recent(connections, current_time) ==
    LET cutoff_time == current_time - Retention
        keep == {ip \in DOMAIN connections : connections[ip].last_seen > cutoff_time}
    IN [ip \in keep |-> connections[ip]]

Restrict(h, ips) == [ip \in DOMAIN h \cap ips |-> h[ip]]

\* the outcomes of a pass at current_time over the persisted files and the
\* log: the map saved and returned, the ledger saved, and the history
parse_nginx_access_log(connections, ledger, lines, h, current_time) ==
    LET r == FoldLines(recent_lines(lines), ledger.lines, connections, {}, h)
        kept == Recent(r.connections, current_time)
    IN {[connections |-> kept, ledger |-> l, hist |-> Restrict(r.hist, DOMAIN kept)] :
            l \in all_processed(ledger, r.new_processed_lines)}

(***************************************************************************)
(* Log lines, clock readings and steps of the Reconstructor.               *)
(***************************************************************************)
\* lines the access log may hold
MaxLog == 3
\* passes of the Reconstructor in a run
MaxPasses == 2

D_T0 == Date(8, "Nov", 2025, 12, 0, 0)
T0 == Timestamp(D_T0)
IP1 == "10.0.2.15"

\* Scenario 4: the device downloads the script
L_a == LogLine("ok", IP1, D_T0, P_bootstrap, 200, UA_arista)
\* 299 seconds later, another client program on the same address
L_b == LogLine("ok", IP1, Date(8, "Nov", 2025, 12, 4, 59), P_other, 200, UA_curl)
\* 300 seconds after that, a refused request for the script
L_c == LogLine("ok", IP1, Date(8, "Nov", 2025, 12, 9, 59), P_bootstrap, 404, UA_arista)
\* downloads stamped with the epoch and five seconds before it
L_epoch == LogLine("ok", IP1, Date(1, "Jan", 1970, 0, 0, 0), P_root, 200, UA_arista)
L_neg == LogLine("ok", IP1, Date(31, "Dec", 1969, 23, 59, 55), P_bootstrap, 200, UA_arista)
\* the health probe, which is not tracked
L_health == LogLine("ok", IP1, D_T0, P_health, 200, UA_curl)
\* a time that does not parse
L_bad == LogLine("ok", IP1, Date(31, "Feb", 2025, 12, 0, 0), P_bootstrap, 200, UA_arista)

Lines == {L_a, L_b, L_c, L_epoch, L_neg, L_health, L_bad}

\* readings of time.time() at a pass: shortly after the lines, and 24 hours
\* and 24 hours and a second after the first of them
Nows == {T0 + 2 * SessionGap, T0 + Retention, T0 + Retention + 1}

\* the state before the first line is logged, with the ledger file as given
LogStart(ledger) ==
    /\ fs = SeedDir(0, File(1, InitNow))
    /\ meta = SeedMeta
    /\ requests = 0
    /\ op = [kind |-> "Init", name |-> <<>>, arg |-> <<>>, status |-> 200, err |-> ""]
    /\ log = <<>>
    /\ conn_file = EmptyMap
    /\ ledger_file = ledger
    /\ ret = EmptyMap
    /\ hist = EmptyMap
    /\ lop = [kind |-> "Init", now |-> 0]
    /\ passes = 0
    /\ AuthIdle
    /\ NoneInFlight

\* a fresh installation
InitLog == LogStart([old |-> 0, lines |-> {}])

\* an installation whose ledger is full of the lines of rotated logs, its
\* devices not seen for a day
InitLogFull == LogStart([old |-> LedgerCap, lines |-> {}])

\* the web server appends a line to the access log
AppendLine(line) ==
    /\ Len(log) < MaxLog
    /\ log' = Append(log, line)
    /\ lop' = [kind |-> "Append", now |-> 0]
    /\ UNCHANGED <<conn_file, ledger_file, ret, hist, passes, rvars, avars, cvars>>

\* GET /api/device-connections at the time now
Pass(now) ==
    /\ passes < MaxPasses
    /\ \E r \in parse_nginx_access_log(conn_file, ledger_file, log, hist, now) :
        /\ conn_file' = r.connections
        /\ ret' = r.connections
        /\ ledger_file' = r.ledger
        /\ hist' = r.hist
    /\ lop' = [kind |-> "Pass", now |-> now]
    /\ passes' = passes + 1
    /\ UNCHANGED <<log, rvars, avars, cvars>>

NextLog ==
    \/ \E line \in Lines : AppendLine(line)
    \/ \E now \in Nows : Pass(now)

SpecLog == InitLog /\ [][NextLog]_vars

\* the lines logged in the runs that start with a full ledger
FullLines == {L_a, L_b}

NextLogFull ==
    \/ \E line \in FullLines : AppendLine(line)
    \/ \E now \in Nows : Pass(now)

SpecLogFull == InitLogFull /\ [][NextLogFull]_vars

(***************************************************************************)
(* Properties of the Reconstructor.                                        *)
(***************************************************************************)
\* the lines of the input set that a pass counts when the ledger lacks them
Counted == {line \in Lines : Matches(line) /\ ~Excluded(line) /\ StrpOk(line.time)}

\* C14: a second pass right after a pass, at the same wall-clock time and
\* over the same log and the persisted ledger, leaves the saved and the
\* returned device map as they were.
C14_SecondPassIdempotent ==
    [][(/\ lop.kind = "Pass"
        /\ lop'.kind = "Pass"
        /\ passes' = passes + 1
        /\ lop'.now = lop.now)
       => (conn_file' = conn_file /\ ret' = ret)]_vars

\* C15: at the end of a pass at time now, a device whose lastSeen is
\* now - 86400 is in the returned and in the saved map, and a device whose
\* lastSeen is now - 86401 is in neither.
C15_RetentionBoundary ==
    [][(lop'.kind = "Pass" /\ passes' = passes + 1)
       => LET folded == FoldLines(recent_lines(log), ledger_file.lines,
                                  conn_file, {}, hist).connections
              now == lop'.now
          IN \A ip \in DOMAIN folded :
                /\ folded[ip].last_seen = now - Retention
                   => (ip \in DOMAIN ret' /\ ip \in DOMAIN conn_file')
                /\ folded[ip].last_seen = now - Retention - 1
                   => (ip \notin DOMAIN ret' /\ ip \notin DOMAIN conn_file')]_vars

\* C16: of two lines of one address folded one after the other, the second
\* extends the session (same start, end at its timestamp, one more request;
\* 2 requests when the first line opened the session) when it is 299 seconds
\* after the first, and opens a new session with 1 request when it is 300
\* seconds after it.
C16_SessionBoundary ==
    \A l1 \in Counted, l2 \in Counted :
        l1.ip = l2.ip =>
            LET t1 == Timestamp(l1.time)
                t2 == Timestamp(l2.time)
                c1 == FoldLine(conn_file, l1)
                s1 == c1[l1.ip].sessions
                s2 == FoldLine(c1, l2)[l2.ip].sessions
                n == Len(s1)
            IN /\ t2 - t1 = 299 =>
                    /\ Len(s2) = n
                    /\ SubSeq(s2, 1, n - 1) = SubSeq(s1, 1, n - 1)
                    /\ s2[n] = [start |-> s1[n].start, end |-> t2,
                                requests |-> s1[n].requests + 1]
                    /\ s1[n].requests = 1 => s2[n].requests = 2
               /\ t2 - t1 = 300 =>
                    /\ s2[Len(s2)] = [start |-> t2, end |-> t2, requests |-> 1]
                    /\ n < MaxSessions => s2 = Append(s1, s2[Len(s2)])

\* a pass has folded three lines 299 and 300 seconds apart: the first two
\* share a session, the third has its own
C16_Witness ==
    /\ lop.kind = "Pass"
    /\ log = <<L_a, L_b, L_c>>
    /\ IP1 \in DOMAIN conn_file
    /\ conn_file[IP1].sessions =
         <<[start |-> T0, end |-> T0 + 299, requests |-> 2],
           [start |-> T0 + 599, end |-> T0 + 599, requests |-> 1]>>

\* C17: lastSeen of a device that stays in the map never decreases.
C17_LastSeenForward ==
    [][\A ip \in DOMAIN conn_file \cap DOMAIN conn_file' :
          conn_file'[ip].last_seen >= conn_file[ip].last_seen]_vars

\* C18: the first counted line of an unknown address creates the device with
\* firstSeen = lastSeen = the line's timestamp, totalRequests = 1, one session
\* {start = end = timestamp, requestCount = 1}, and bootstrapDownloaded true
\* exactly for a status-200 request for /bootstrap.py or /.
C18_FirstLine ==
    \A line \in Counted :
        line.ip \notin DOMAIN conn_file =>
            LET t == Timestamp(line.time)
                c == FoldLine(conn_file, line)
                d == c[line.ip]
            IN /\ DOMAIN c = DOMAIN conn_file \cup {line.ip}
               /\ d.first_seen = t
               /\ d.last_seen = t
               /\ d.total_requests = 1
               /\ d.sessions = <<[start |-> t, end |-> t, requests |-> 1]>>
               /\ d.bootstrap_downloaded =
                    (line.status = 200 /\ line.path \in {P_bootstrap, P_root})

\* Scenario 4: a pass over the one line of the device's download has created
\* the device
C18_Witness ==
    /\ lop.kind = "Pass"
    /\ log = <<L_a>>
    /\ DOMAIN conn_file = {IP1}
    /\ conn_file[IP1].first_seen = T0
    /\ conn_file[IP1].last_seen = T0
    /\ conn_file[IP1].total_requests = 1
    /\ conn_file[IP1].bootstrap_downloaded
    /\ conn_file[IP1].sessions = <<[start |-> T0, end |-> T0, requests |-> 1]>>

\* the timestamps of the downloads folded into the device
DownloadTimes(ip) ==
    {Timestamp(hist[ip][i].time) :
        i \in {i \in 1..Len(hist[ip]) : IsDownload(hist[ip][i].path, hist[ip][i].status)}}

\* C19: bootstrapDownloaded is true exactly when a download has been folded
\* into the device, and bootstrapDownloadTime is the maximum timestamp of
\* the downloads folded.
C19_DownloadTimeIsMax ==
    \A ip \in DOMAIN conn_file :
        LET D == DownloadTimes(ip)
        IN /\ conn_file[ip].bootstrap_downloaded = (D # {})
           /\ D # {} => conn_file[ip].bootstrap_download_time =
                            <<CHOOSE t \in D : \A u \in D : u <= t>>

\* C20: userAgent is the user agent of the line folded last into the device.
C20_UserAgentIsLast ==
    \A ip \in DOMAIN conn_file :
        conn_file[ip].user_agent = hist[ip][Len(hist[ip])].ua

(***************************************************************************)
(* Classification of the lines.                                            *)
(***************************************************************************)
\* a script fetching a path that has /api/ inside it
L_nested == LogLine("ok", IP1, D_T0, P_nested, 200, UA_curl)
\* a browser on a page that is not the script, and downloading the script
L_browser == LogLine("ok", IP1, D_T0, P_other, 200, UA_browser)
L_browser_dl == LogLine("ok", IP1, D_T0, P_bootstrap, 200, UA_browser)
\* a device asking for the panel
L_ui_arista == LogLine("ok", IP1, D_T0, P_ui, 200, UA_arista)

ClassifyLines == {L_a, L_health, L_nested, L_browser, L_browser_dl, L_ui_arista, L_bad}

NextLogClassify ==
    \/ \E line \in ClassifyLines : AppendLine(line)
    \/ \E now \in Nows : Pass(now)

SpecLogClassify == InitLog /\ [][NextLogClassify]_vars

\* the lines of the log that match the grammar and are not in the ledger
FreshLines == {i \in 1..Len(log) : Matches(log[i]) /\ line_stripped(log[i]) \notin ledger_file.lines}

\* what the loop does with the line in the state before the pass
StepOf(line) == FoldStep(line, ledger_file.lines, conn_file, {}, hist)
MarkedOnly(line) ==
    /\ line_stripped(line) \in StepOf(line).new_processed_lines
    /\ StepOf(line).connections = conn_file
Tracked(line) == StepOf(line).connections # conn_file

\* the user agent names no device, the path is not the script's, and the
\* path is the panel's or the user agent a browser's
ExcludedAsStated(line) ==
    /\ ~is_arista_device(line.ua)
    /\ line.path \notin {P_bootstrap, P_root}
    /\ \/ line.path \in {P_health, P_ui, P_api}
       \/ StartsWith(line.path, P_ui \o <<"/">>)
       \/ StartsWith(line.path, P_api \o <<"/">>)
       \/ is_browser(line.ua)

\* the same, and also every path that has /api/ anywhere inside it
ExcludedAmended(line) ==
    /\ ~is_arista_device(line.ua)
    /\ line.path \notin {P_bootstrap, P_root}
    /\ \/ line.path \in {P_health, P_ui, P_api}
       \/ StartsWith(line.path, P_ui \o <<"/">>)
       \/ Contains(line.path, P_api \o <<"/">>)
       \/ is_browser(line.ua)

\* C21 as stated: in every pass, a grammar-matching line that is not in the
\* ledger is marked processed with the devices unchanged if and only if its
\* user agent names no device, its path is neither /bootstrap.py nor /, and
\* its path is /health, /ui, /api, starts with /ui/ or /api/, or its user
\* agent is a browser's; every other such line with a parseable time
\* changes a device.
C21_Original ==
    [][lop'.kind = "Pass" =>
        \A i \in FreshLines :
            /\ ExcludedAsStated(log[i]) <=> MarkedOnly(log[i])
            /\ ~ExcludedAsStated(log[i]) /\ StrpOk(log[i].time) => Tracked(log[i])]_vars

\* C21: in every pass, a grammar-matching line that is not in the ledger is
\* marked processed with the devices unchanged if and only if its user
\* agent names no device, its path is neither /bootstrap.py nor /, and its
\* path is /health, /ui, /api, starts with /ui/, has /api/ anywhere in it,
\* or its user agent is a browser's; every other such line with a parseable
\* time changes a device.
C21_Exclusion ==
    [][lop'.kind = "Pass" =>
        \A i \in FreshLines :
            /\ ExcludedAmended(log[i]) <=> MarkedOnly(log[i])
            /\ ~ExcludedAmended(log[i]) /\ StrpOk(log[i].time) => Tracked(log[i])]_vars

\* a pass has marked the script's request for the nested path and counted
\* the device's request for the panel
C21_Witness ==
    /\ lop.kind = "Pass"
    /\ {L_nested, L_ui_arista} \subseteq ledger_file.lines
    /\ IP1 \in DOMAIN conn_file
    /\ conn_file[IP1].total_requests = 1
    /\ hist[IP1] = <<L_ui_arista>>

(***************************************************************************)
(* Passes in which the files cannot all be read or written.                *)
(*                                                                         *)
(* io.log is "ok" when the access log is read, "absent" when               *)
(* NGINX_ACCESS_LOG.exists() is false and "unreadable" when open or        *)
(* readlines raises; io.ledger_write and io.conn_write tell whether the    *)
(* write of processed_log_lines.txt and of device_connections.json         *)
(* succeeds.  A write that fails leaves the file as it was (open raised)   *)
(* or cut short (the write raised): a cut ledger is modelled by the empty  *)
(* one, a cut device_connections.json is one that json.load rejects, which *)
(* load_device_connections reads as {}.                                    *)
(***************************************************************************)
IOs ==
    {[log |-> "ok", ledger_write |-> lw, conn_write |-> cw] : lw, cw \in BOOLEAN}
        \cup {[log |-> l, ledger_write |-> TRUE, conn_write |-> TRUE] :
                  l \in {"absent", "unreadable"}}

\* the ledger file after the write of l over the ledger
LedgerWritten(ledger, l, ok) ==
    IF ok THEN {l} ELSE {ledger, [old |-> 0, lines |-> {}]}

\* what load_device_connections reads after save_device_connections(kept)
\* over a file that read as connections, with the history of its devices
ConnWritten(connections, h, kept, kept_h, ok) ==
    IF ok THEN {[connections |-> kept, hist |-> kept_h]}
    ELSE {[connections |-> connections, hist |-> h],
          [connections |-> EmptyMap, hist |-> EmptyMap]}

\* a pass in which a failed write ends the pass in the outer handler, which
\* returns nothing of what it folded
parse_log_io_write_raises(connections, ledger, lines, h, current_time, io) ==
    IF io.log # "ok"
    THEN {[connections |-> connections, ledger |-> ledger, hist |-> h,
           ret |-> connections]}
    ELSE LET r == FoldLines(recent_lines(lines), ledger.lines, connections, {}, h)
             kept == Recent(r.connections, current_time)
             kept_h == Restrict(r.hist, DOMAIN kept)
         IN {[connections |-> c.connections, ledger |-> lf, hist |-> c.hist,
              ret |-> IF io.ledger_write /\ io.conn_write THEN kept ELSE EmptyMap] :
                c \in ConnWritten(connections, h, kept, kept_h, io.conn_write),
                lf \in UNION {LedgerWritten(ledger, l, io.ledger_write) :
                                 l \in all_processed(ledger, r.new_processed_lines)}}

\* the outcomes of a pass at current_time: the two files afterwards, the
\* history of the devices of device_connections.json, and the map returned
parse_log_io(connections, ledger, lines, h, current_time, io) ==
    IF io.log # "ok"
    THEN {[connections |-> connections, ledger |-> ledger, hist |-> h,
           ret |-> connections]}
    ELSE LET r == FoldLines(recent_lines(lines), ledger.lines, connections, {}, h)
             kept == Recent(r.connections, current_time)
             kept_h == Restrict(r.hist, DOMAIN kept)
         IN {[connections |-> c.connections, ledger |-> lf, hist |-> c.hist,
              ret |-> kept] :
                c \in ConnWritten(connections, h, kept, kept_h, io.conn_write),
                lf \in UNION {LedgerWritten(ledger, l, io.ledger_write) :
                                 l \in all_processed(ledger, r.new_processed_lines)}}

\* GET /api/device-connections at the time now, the files behaving as io
\* says; the log file can be absent only when it has no lines
PassIO(now, io) ==
    /\ passes < MaxPasses
    /\ io.log = "absent" => log = <<>>
    /\ \E r \in parse_log_io(conn_file, ledger_file, log, hist, now, io) :
        /\ conn_file' = r.connections
        /\ ret' = r.ret
        /\ ledger_file' = r.ledger
        /\ hist' = r.hist
    /\ lop' = [kind |-> "Pass", now |-> now, io |-> io, status |-> 200]
    /\ passes' = passes + 1
    /\ UNCHANGED <<log, rvars, avars, cvars>>

\* the log is rotated away
RotateLog ==
    /\ log # <<>>
    /\ log' = <<>>
    /\ lop' = [kind |-> "Rotate", now |-> 0]
    /\ UNCHANGED <<conn_file, ledger_file, ret, hist, passes, rvars, avars, cvars>>

IOLines == {L_a, L_b}
\* readings of time.time(): shortly after the lines, and more than 24 hours
\* after them
IONows == {T0 + 2 * SessionGap, T0 + Retention + 1}

NextLogIO ==
    \/ \E line \in IOLines : AppendLine(line)
    \/ \E now \in IONows, io \in IOs : PassIO(now, io)
    \/ RotateLog

SpecLogIO == InitLog /\ [][NextLogIO]_vars

\* C22: the map returned by a pass, also by one that finds the access log
\* absent or unreadable, has no device whose last_seen is more than
\* Retention seconds before the time of the pass.
C22_ReturnedMapCollected ==
    lop.kind = "Pass" =>
        \A ip \in DOMAIN ret : ret[ip].last_seen >= lop.now - Retention

\* C29: a pass that reads the log returns the devices of the fold over the
\* tail window that were seen in the last Retention seconds, with status
\* 200, also when the write of the ledger or of device_connections.json
\* fails.
C29_WriteFailureSwallowed ==
    [][lop'.kind = "Pass" /\ lop'.io.log = "ok" =>
        /\ lop'.status = 200
        /\ ret' = Recent(FoldLines(recent_lines(log), ledger_file.lines,
                                   conn_file, {}, hist).connections, lop'.now)]_vars

\* a pass has folded a line and returned its device although neither file
\* could be written
C29_Witness ==
    /\ lop.kind = "Pass"
    /\ lop.io = [log |-> "ok", ledger_write |-> FALSE, conn_write |-> FALSE]
    /\ IP1 \in DOMAIN ret
    /\ ret[IP1].total_requests = 1
    /\ conn_file = EmptyMap
    /\ ledger_file.lines = {}

(***************************************************************************)
(* A device with a long list of sessions.                                  *)
(***************************************************************************)
\* the k-th of n requests of the device, one every SessionGap seconds, the
\* last one SessionGap seconds before L_a
EarlierLine(k, n) ==
    LET minute == 12 * 60 - (SessionGap \div 60) * (n - k + 1)
    IN LogLine("ok", IP1, Date(8, "Nov", 2025, minute \div 60, minute % 60, 0),
               P_other, 200, UA_arista)

\* the pass over an earlier log of those n lines, since rotated away
EarlierPass(n) ==
    FoldLines([k \in 1..n |-> EarlierLine(k, n)], {}, EmptyMap, {}, EmptyMap)

\* what that pass leaves, written out: every line opens a session of its own
EarlierDevice(n) ==
    LET t(k) == Timestamp(EarlierLine(k, n).time)
    IN [NewDevice(IP1, t(1), UA_arista) EXCEPT
          !.last_seen = t(n),
          !.total_requests = n,
          !.sessions = [k \in 1..n |-> NewSession(t(k))]]

EarlierState(n) ==
    [connections |-> (IP1 :> EarlierDevice(n)),
     new_processed_lines |-> {EarlierLine(k, n) : k \in 1..n},
     hist |-> (IP1 :> [k \in 1..n |-> EarlierLine(k, n)])]

\* the device has one session short of the cap, or as many as the cap
InitLogSessions ==
    /\ fs = SeedDir(0, File(1, InitNow))
    /\ meta = SeedMeta
    /\ requests = 0
    /\ op = [kind |-> "Init", name |-> <<>>, arg |-> <<>>, status |-> 200, err |-> ""]
    /\ log = <<>>
    /\ EarlierPass(MaxLog) = EarlierState(MaxLog)
    /\ \E n \in {MaxSessions - 1, MaxSessions} :
        /\ conn_file = EarlierState(n).connections
        /\ ledger_file = [old |-> 0, lines |-> EarlierState(n).new_processed_lines]
        /\ hist = EarlierState(n).hist
    /\ ret = conn_file
    /\ lop = [kind |-> "Init", now |-> 0]
    /\ passes = 0
    /\ AuthIdle
    /\ NoneInFlight

SessionLines == {L_a, L_b, L_c}

NextLogSessions ==
    \/ \E line \in SessionLines : AppendLine(line)
    \/ \E now \in Nows : Pass(now)

SpecLogSessions == InitLogSessions /\ [][NextLogSessions]_vars

\* the lines of the log that the pass counts
CountedNow == {i \in FreshLines : ~Excluded(log[i]) /\ StrpOk(log[i].time)}

\* C23: after a pass no device has more than MaxSessions sessions; and when
\* the pass counts one line, for a device that has MaxSessions sessions,
\* SessionGap seconds or more after the end of the last one, the first
\* session is dropped, the others follow in their order and the new session
\* is the last.
C23_SessionCap ==
    [][lop'.kind = "Pass" =>
        /\ \A ip \in DOMAIN conn_file' : Len(conn_file'[ip].sessions) <= MaxSessions
        /\ \A i \in CountedNow :
            LET ip == log[i].ip
                t == Timestamp(log[i].time)
            IN (/\ CountedNow = {i}
                /\ ip \in DOMAIN conn_file /\ ip \in DOMAIN conn_file'
                /\ Len(conn_file[ip].sessions) = MaxSessions
                /\ t - conn_file[ip].sessions[MaxSessions].end >= SessionGap)
               => conn_file'[ip].sessions =
                      Append(Tail(conn_file[ip].sessions),
                             [start |-> t, end |-> t, requests |-> 1])]_vars

\* the device had MaxSessions sessions, the first of them at 07:50, and a
\* pass has counted the request of 12:00: the first session is now the one
\* of 07:55 and the last the one of 12:00
C23_Witness ==
    /\ lop.kind = "Pass"
    /\ log = <<L_a>>
    /\ IP1 \in DOMAIN conn_file
    /\ conn_file[IP1].total_requests = MaxSessions + 1
    /\ Len(conn_file[IP1].sessions) = MaxSessions
    /\ conn_file[IP1].sessions[1].start = T0 - MaxSessions * SessionGap + SessionGap
    /\ conn_file[IP1].sessions[MaxSessions].start = T0

\* the lines of the log that reach the parsing of the time, which fails
Unparsed == {i \in FreshLines : ~Excluded(log[i]) /\ ~StrpOk(log[i].time)}

\* the log without those lines
Parsable ==
    LET RECURSIVE keep(_)
        keep(i) == IF i > Len(log) THEN <<>>
                   ELSE IF i \in Unparsed THEN keep(i + 1)
                   ELSE <<log[i]>> \o keep(i + 1)
    IN keep(1)

NextRename ==
    \/ \E n \in RenameNames \cup {N_backup_1}, new \in NewNames \cup {N_bootstrap2} :
           Rename(n, new)
    \/ \E n \in DeleteNames : Delete(n)

SpecRename == Init /\ [][NextRename]_vars

\* C30: after a Rename answered with 200, when the old name had a metadata
\* entry the new name has that entry and the old name, if it differs, has
\* none; when it had none the metadata is as before; the entries of all
\* other names are unchanged.
C30_RenameMovesMetadata ==
    [][op'.kind = "Rename" /\ op'.status = 200 =>
        LET old == validate_filename_for_api(op'.name)
            new == NormalizeNewName(Strip(op'.arg))
        IN /\ old \in DOMAIN meta =>
                /\ new \in DOMAIN meta' /\ meta'[new] = meta[old]
                /\ new # old => old \notin DOMAIN meta'
           /\ old \notin DOMAIN meta => meta' = meta
           /\ \A k \in (DOMAIN meta \cup DOMAIN meta') \ {old, new} :
                k \in DOMAIN meta /\ k \in DOMAIN meta' /\ meta'[k] = meta[k]]_vars

\* bootstrap2.py has been renamed to bootstrap_prod.py and its entry is
\* under the new name
C30_Witness ==
    /\ op.kind = "Rename" /\ op.status = 200
    /\ op.name = N_bootstrap2 /\ op.arg = N_prod_py
    /\ N_bootstrap_prod \in DOMAIN fs /\ N_bootstrap2 \notin DOMAIN fs
    /\ N_bootstrap_prod \in DOMAIN meta /\ N_bootstrap2 \notin DOMAIN meta
    /\ meta[N_bootstrap_prod] = SeedMeta[N_bootstrap2]
    /\ meta[BOOTSTRAP_SCRIPT] = SeedMeta[BOOTSTRAP_SCRIPT]

(***************************************************************************)
(* Activate while the pointer is a symlink.                                *)
(***************************************************************************)
\* the backups and the script the pointer named are as they were
C27_Frame ==
    LET prev == fs[BOOTSTRAP_SCRIPT].target
    IN /\ GlobBackups(fs') = GlobBackups(fs)
       /\ \A b \in GlobBackups(fs) : fs'[b] = fs[b]
       /\ prev \in DOMAIN fs <=> prev \in DOMAIN fs'
       /\ prev \in DOMAIN fs => fs'[prev] = fs[prev]

\* C27: Activate(name) for an existing script other than bootstrap.py, while
\* the pointer is a symlink, succeeds, leaves the pointer a symlink to name,
\* and leaves the backups (names and contents) and the script the pointer
\* named before as they were.
C27_SymlinkRepointed ==
    [][(/\ op'.kind = "Activate"
        /\ op'.name # BOOTSTRAP_SCRIPT
        /\ validate_filename_for_api(op'.name) # None
        /\ Exists(fs, op'.name)
        /\ IsSymlink(fs, BOOTSTRAP_SCRIPT))
       => /\ op'.status = 200
          /\ fs'[BOOTSTRAP_SCRIPT] = Link(op'.name)
          /\ C27_Frame]_vars

(***************************************************************************)
(* Requests to the authentication layer and through it.                    *)
(***************************************************************************)
\* login requests in a run
MaxLogins == 7

\* logins in a run of requests to the write endpoints
MaxGateLogins == 2

\* readings of time.time() after the first request at 0: the last second
\* of its window and the end of it, the time at which its entry is cleaned
\* and the second after
LoginTimes == {Window - 1, Window, 2 * Window, 2 * Window + 1}
\* the last second of a session opened at 0 and the first second after it
GateTimes == {SessionTimeout, SessionTimeout + 1}

\* the failed logins that are less than Window seconds before the time t:
\* the clock never goes back, so the others are never recent again
StillRecent(f, t) ==
    [ip \in DOMAIN f |-> SelectSeq(f[ip], LAMBDA u : t - u < Window)]

ClientIPs == {"192.0.2.1", "192.0.2.2"}

Tick(t) ==
    /\ t > clock
    /\ clock' = t
    /\ failed' = StillRecent(failed, t)
    /\ UNCHANGED <<session, login_attempts, aop, logins, saved, rvars, lvars, cvars>>

\* POST /api/auth/login from the address ip
Login(ip, password) ==
    LET r == auth_login(session, login_attempts, ip, password, clock, logins + 1)
    IN /\ logins < MaxLogins
       /\ logins' = logins + 1
       /\ session' = r.session
       /\ login_attempts' = r.login_attempts
       /\ aop' = [kind |-> "Login", ip |-> ip, cookie |-> "browser", token |-> 0,
                  status |-> r.status, code |-> r.code, checked |-> r.checked]
       /\ failed' = IF r.status \in {400, 401}
                    THEN (ip :> Append(IF ip \in DOMAIN failed THEN failed[ip] ELSE <<>>,
                                       clock)) @@ failed
                    ELSE IF r.status = 200
                    THEN [a \in DOMAIN failed \ {ip} |-> failed[a]]
                    ELSE failed
       /\ UNCHANGED <<clock, saved, rvars, lvars, cvars>>

\* POST /api/auth/logout
Logout ==
    /\ session # EmptyMap
    /\ session' = EmptyMap
    /\ aop' = [kind |-> "Logout", ip |-> "", cookie |-> "browser", token |-> 0,
               status |-> 200, code |-> "", checked |-> FALSE]
    /\ UNCHANGED <<login_attempts, clock, failed, logins, saved, rvars, lvars, cvars>>

NextLogin ==
    \/ \E ip \in ClientIPs, password \in Passwords : Login(ip, password)
    \/ Logout
    \/ \E t \in LoginTimes : Tick(t)

\* a directory with bootstrap.py, bootstrap2.py and KEEP backups
InitAuth ==
    /\ fs = SeedDir(KEEP, File(1, InitNow))
    /\ meta = SeedMeta
    /\ requests = 0
    /\ op = [kind |-> "Init", name |-> <<>>, arg |-> <<>>, status |-> 200, err |-> ""]
    /\ LogIdle
    /\ AuthIdle
    /\ NoneInFlight

SpecLogin == InitAuth /\ [][NextLogin]_vars

\* what the handler behind the decorator does with the request
Outcomes(kind, n, arg, t) ==
    IF kind = "Activate"
    THEN {OutM(r.fs, meta, r.status, r.err) : r \in set_active_script(fs, n)}
    ELSE IF kind = "Rename"
    THEN {rename_bootstrap_script(fs, meta, n, arg)}
    ELSE IF kind = "Delete"
    THEN {LET r == delete_bootstrap_script(fs, n) IN OutM(r.fs, meta, r.status, r.err)}
    ELSE IF kind = "RestoreBackup"
    THEN {LET r == restore_backup_script(fs, n, arg[1], t)
          IN OutM(r.fs, meta, r.status, r.err)}
    ELSE {LET r == upload_bootstrap_script(fs, n, arg[1], t)
          IN OutM(r.fs, meta, r.status, r.err)}

\* the session cookie of a request: the one the browser holds, the copy a
\* client kept, or none
CookieOf(cookie) ==
    IF cookie = "browser" THEN session
    ELSE IF cookie = "saved" THEN saved
    ELSE EmptyMap

\* a request to a write endpoint that carries that cookie and the token
\* (0: none) in its X-CSRF-Token header; the response sets the cookie of
\* the client that sent one
Mutating(kind, n, arg, cookie, token) ==
    LET s == CookieOf(cookie)
        g == require_auth(s, token, clock)
    IN /\ requests < MaxRequests
       /\ requests' = requests + 1
       /\ session' = IF cookie = "browser" THEN g.session ELSE session
       /\ saved' = IF cookie = "saved" THEN g.session ELSE saved
       /\ aop' = [kind |-> "Gate", ip |-> "", cookie |-> cookie, token |-> token,
                  status |-> g.status, code |-> g.err, checked |-> FALSE]
       /\ IF g.status = 200
          THEN \E t \in Clock : \E r \in Outcomes(kind, n, arg, t) :
                  /\ fs' = r.fs
                  /\ meta' = r.meta
                  /\ op' = Done(kind, n, arg, r)
          ELSE /\ fs' = fs
               /\ meta' = meta
               /\ op' = [kind |-> kind, name |-> n, arg |-> arg,
                         status |-> g.status, err |-> g.err]
       /\ UNCHANGED <<login_attempts, clock, failed, logins, lvars, cvars>>

\* the write requests of the runs through the decorator
GateRequests ==
    {<<"Activate", N_bootstrap2, <<>> >>,
     <<"Rename", N_bootstrap2, N_prod_py>>,
     <<"Delete", N_bootstrap2, <<>> >>,
     <<"RestoreBackup", N_backup_1, <<"new">> >>,
     <<"Upload", N_prod_py, <<3>> >>}

Cookies == {"browser", "none"}
ReqTokens == 0..MaxGateLogins

NextGate ==
    \/ \E q \in GateRequests, cookie \in Cookies, token \in ReqTokens :
           Mutating(q[1], q[2], q[3], cookie, token)
    \/ logins < MaxGateLogins /\ Login("192.0.2.1", "admin-secret")
    \/ Logout
    \/ \E t \in GateTimes : Tick(t)

SpecGate == InitAuth /\ [][NextGate]_vars

\* C24: a request to Activate, Rename, Delete, RestoreBackup or Upload whose
\* cookie is not that of an authenticated session that has not expired, or
\* whose token is not that session's CSRF token, is answered 401 or 403 and
\* leaves the registry directory and the metadata as they were.
C24_Gated ==
    [][requests' # requests =>
        LET s == IF aop'.cookie = "browser" THEN session ELSE EmptyMap
            live == /\ "authenticated" \in DOMAIN s
                    /\ s["authenticated"]
                    /\ clock <= s["expires_at"]
            tokened == /\ aop'.token # 0
                       /\ "csrf_token" \in DOMAIN s
                       /\ s["csrf_token"] = aop'.token
        IN ~(live /\ tokened) =>
              /\ op'.status \in {401, 403}
              /\ fs' = fs
              /\ meta' = meta]_vars

\* after a logout and a second login, a Delete that carries the session's
\* cookie and the token of the first session has been refused
C24_Witness ==
    /\ aop.kind = "Gate" /\ aop.cookie = "browser"
    /\ aop.token = 1 /\ aop.status = 403
    /\ "csrf_token" \in DOMAIN session /\ session["csrf_token"] = 2
    /\ op.kind = "Delete" /\ op.status = 403
    /\ N_bootstrap2 \in DOMAIN fs

\* the failed logins of the address in the Window seconds that end now,
\* none of them before a successful login of the address
RecentFailures(ip) ==
    IF ip \in DOMAIN failed
    THEN {i \in 1..Len(failed[ip]) : clock - failed[ip][i] < Window}
    ELSE {}

\* C25: a login attempt from an address that has MaxAttempts failed
\* attempts in the last Window seconds, with no successful login since the
\* first of them, is answered RATE_LIMITED and its password is not checked.
C25_RateLimited ==
    [][logins' # logins /\ Cardinality(RecentFailures(aop'.ip)) >= MaxAttempts =>
        aop'.code = "RATE_LIMITED" /\ ~aop'.checked]_vars

(***************************************************************************)
(* Names with traversal sequences.                                         *)
(***************************************************************************)
\* bootstrap2%00.py in a URL, ../bootstrap_prod.py and bootstrap..py
N_nul == S_bootstrap \o <<"2", NUL>> \o S_py
N_up_prod == <<".", ".", "/">> \o N_bootstrap_prod
N_dots == S_bootstrap \o <<".">> \o S_py

NextNames ==
    \/ \E n \in {N_nul, N_dots} : Activate(n)
    \/ \E new \in {N_up_prod, N_dots} : Rename(N_bootstrap2, new)
    \/ Delete(N_nul)
    \/ \E c \in UploadContents : Upload(N_up_prod, c)

SpecNames == Init /\ [][NextNames]_vars

\* the name has "..", a path separator or NUL in it
HasTraversal(name) ==
    \/ Contains(name, <<".", ".">>)
    \/ Contains(name, <<"/">>)
    \/ Contains(name, <<BSLASH>>)
    \/ Contains(name, <<NUL>>)

\* C26: a write request whose script name (the name in the URL, the new
\* name of a rename, the file name of an upload) has "..", a path separator
\* or NUL in it, or whose name in the URL does not match
\* bootstrap[A-Za-z0-9_.-]*\.py, is refused and changes nothing in the
\* registry directory; and every entry of the directory is a direct child
\* of it.
C26_TraversalRejected ==
    [][requests' # requests =>
        /\ (\/ HasTraversal(op'.name)
            \/ op'.kind = "Rename" /\ HasTraversal(op'.arg)
            \/ op'.kind \in {"Activate", "Rename", "Delete"} /\ ~FullMatch(op'.name))
           => op'.status >= 400 /\ fs' = fs /\ meta' = meta
        /\ \A n \in DOMAIN fs' : ~Contains(n, <<"/">>) /\ n # <<".", ".">>]_vars

(***************************************************************************)
(* The pointer over whole runs of the registry.                            *)
(***************************************************************************)
\* C34: in every state reached by Activate, Rename, Delete, RestoreBackup and
\* Upload calls from a directory whose bootstrap.py resolves to an existing
\* file, bootstrap.py is an entry of the directory and, when it is a
\* symlink, the file it names exists.
C34_PointerNeverDangles ==
    /\ BOOTSTRAP_SCRIPT \in DOMAIN fs
    /\ Exists(fs, BOOTSTRAP_SCRIPT)

\* C35: after every Activate that answers 200 the pointer does not name a
\* backup file, and the active name List() reports is the name of one of
\* the entries List() returns.
C35_BackupNeverActive ==
    [][(op'.kind = "Activate" /\ op'.status = 200)
       => LET L == list_bootstrap_scripts(fs')
          IN /\ ~IsBackupName(PointerName(fs'))
             /\ \E i \in 1..Len(L.scripts) : L.scripts[i].name = L.active]_vars

\* C36: RestoreBackup(name, mode=active) that answers 200 changes no entry
\* of the directory other than bootstrap.py: every other script file and
\* every Backup file is there with the same content after the call, whether
\* the pointer was a regular file or a symlink to a script.
C36_RestoreActiveFrame ==
    [][(/\ op'.kind = "RestoreBackup"
        /\ op'.arg = <<"active">>
        /\ op'.status = 200
        /\ Exists(fs, BOOTSTRAP_SCRIPT)
        /\ ~IsBackupName(PointerName(fs)))
       => /\ DOMAIN fs' \ {BOOTSTRAP_SCRIPT} = DOMAIN fs \ {BOOTSTRAP_SCRIPT}
          /\ \A n \in DOMAIN fs \ {BOOTSTRAP_SCRIPT} :
                 fs[n].kind = "file" => /\ fs'[n].kind = "file"
                                        /\ fs'[n].content = fs[n].content]_vars

(***************************************************************************)
(* Order and counts in the entries of the devices.                         *)
(***************************************************************************)
\* C37: in the map a pass returns, whatever the order of the timestamps of
\* the folded lines, every session has start <= end and every device has
\* first_seen <= last_seen.
C37_OrderedTimes ==
    \A ip \in DOMAIN ret :
        /\ ret[ip].first_seen <= ret[ip].last_seen
        /\ \A i \in 1..Len(ret[ip].sessions) :
               ret[ip].sessions[i].start <= ret[ip].sessions[i].end

\* the sum of the request counts of a list of sessions
RECURSIVE SumRequests(_)
SumRequests(sessions) ==
    IF sessions = <<>> THEN 0
    ELSE sessions[1].requests + SumRequests(Tail(sessions))

\* the number of sessions opened by the lines folded into a device, in the
\* order they were folded: the first line opens one, and so does every line
\* SessionGap seconds or more after the line before it
Opened(h) ==
    Cardinality({k \in 1..Len(h) :
        k = 1 \/ Timestamp(h[k].time) - Timestamp(h[k - 1].time) >= SessionGap})

\* C38: for every device of the persisted map, total_requests is the number
\* of lines folded into it since its entry was created (one per line), it is
\* at least the sum of the request counts of the sessions kept, and it equals
\* that sum when the lines opened no more than MaxSessions sessions, that is
\* when no session has been dropped.
C38_RequestCounts ==
    \A ip \in DOMAIN conn_file :
        LET d == conn_file[ip]
        IN /\ d.total_requests = Len(hist[ip])
           /\ d.total_requests >= SumRequests(d.sessions)
           /\ Opened(hist[ip]) <= MaxSessions
                  => d.total_requests = SumRequests(d.sessions)

\* a device with one session short of the cap sent the requests of 12:00 and
\* 12:04:59, which a pass folded into one new session: nothing was dropped
\* and the 51 requests are those of the 50 sessions
C38_Witness ==
    /\ lop.kind = "Pass"
    /\ log = <<L_a, L_b>>
    /\ IP1 \in DOMAIN conn_file
    /\ Len(conn_file[IP1].sessions) = MaxSessions
    /\ Opened(hist[IP1]) = MaxSessions
    /\ conn_file[IP1].sessions[MaxSessions].requests = 2
    /\ conn_file[IP1].total_requests = MaxSessions + 1

\* a session has been dropped and its request is missing from the sum
C38_WitnessDropped ==
    /\ lop.kind = "Pass"
    /\ IP1 \in DOMAIN conn_file
    /\ Opened(hist[IP1]) > MaxSessions
    /\ conn_file[IP1].total_requests > SumRequests(conn_file[IP1].sessions)

(***************************************************************************)
(* The ledger and the device map under write failures.                     *)
(***************************************************************************)
\* C40: when a pass counts lines and the write of device_connections.json
\* fails, none of those lines is in the ledger file after the pass.
C40_LedgerFollowsMap ==
    [][(/\ lop'.kind = "Pass"
        /\ lop'.io.log = "ok"
        /\ ~lop'.io.conn_write)
       => \A i \in CountedNow : line_stripped(log[i]) \notin ledger_file'.lines]_vars

(***************************************************************************)
(* One pass over the whole log against a pass over a prefix and another    *)
(* over the whole log.  The passes are at a time at which no device of the *)
(* log is collected, and the ledger stays far below its cap.               *)
(***************************************************************************)
\* the web server may log the same text twice: two equal requests in the
\* same second
NextLogSplit ==
    \/ \E line \in SessionLines : AppendLine(line)
    \/ Pass(T0 + 2 * SessionGap)

SpecLogSplit == InitLog /\ [][NextLogSplit]_vars

\* the map of a single pass over the lines on a fresh installation
SinglePass(lines) ==
    FoldLines(recent_lines(lines), {}, EmptyMap, {}, EmptyMap).connections

\* C39: after a pass over the log, whether or not an earlier pass has folded
\* a prefix of it, the persisted map is the map a single pass over the whole
\* log produces.
C39_SplitIndependent ==
    lop.kind = "Pass" => conn_file = SinglePass(log)

(***************************************************************************)
(* The life of a session.  The session is Flask's: its content is the      *)
(* signed cookie the client sends (app.secret_key and the SESSION_COOKIE_  *)
(* settings), the server keeps no record of it, and session.clear() makes  *)
(* the response tell the browser to drop its cookie.  A client that kept a *)
(* copy of a cookie it was sent can send that copy again.                  *)
(***************************************************************************)
\* a client keeps a copy of the cookie the browser holds
KeepCookie ==
    /\ session # EmptyMap
    /\ saved # session
    /\ saved' = session
    /\ aop' = [kind |-> "Keep", ip |-> "", cookie |-> "browser", token |-> 0,
               status |-> 200, code |-> "", checked |-> FALSE]
    /\ UNCHANGED <<session, login_attempts, clock, failed, logins, rvars, lvars, cvars>>

SentCookies == {"browser", "saved"}

NextReplay ==
    \/ \E q \in GateRequests, cookie \in SentCookies, token \in ReqTokens :
           Mutating(q[1], q[2], q[3], cookie, token)
    \/ logins < MaxGateLogins /\ Login("192.0.2.1", "admin-secret")
    \/ Logout
    \/ KeepCookie
    \/ \E t \in GateTimes : Tick(t)

SpecReplay == InitAuth /\ [][NextReplay]_vars

\* the administrator has logged in, has not logged out since, and the
\* session of that login has not expired
SessionLive ==
    /\ "authenticated" \in DOMAIN session
    /\ session["authenticated"]
    /\ clock <= session["expires_at"]

\* C31: a request to a write endpoint is let through to its handler only
\* between a successful login and the earlier of the logout and expires_at;
\* after the logout, or later than expires_at, a request with the browser's
\* cookie is answered 401 and leaves the session empty.
C31_SessionLife ==
    [][requests' # requests =>
        /\ aop'.status = 200 => SessionLive
        /\ (aop'.cookie = "browser" /\ ~SessionLive)
               => aop'.status = 401 /\ session' = EmptyMap]_vars

\* the same for the requests that carry the cookie the browser holds
C31_BrowserOnly ==
    [][(requests' # requests /\ aop'.cookie = "browser") =>
        /\ aop'.status = 200 => SessionLive
        /\ ~SessionLive => aop'.status = 401 /\ session' = EmptyMap]_vars

(***************************************************************************)
(* Two passes in two threads of the server.  A pass reads                  *)
(* device_connections.json, then the ledger file and the access log, folds *)
(* in memory, writes the ledger file and then device_connections.json; no  *)
(* lock is held and no file is re-read, so the steps of two passes         *)
(* interleave in any order.  Both passes are at a time at which no device  *)
(* of the log is collected.                                                *)
(***************************************************************************)
\* line 1250: connections = load_device_connections()
LoadMap(j) ==
    /\ jobs[j].pc = "idle"
    /\ jobs' = [jobs EXCEPT ![j] = [@ EXCEPT !.pc = "map",
                                             !.connections = conn_file,
                                             !.hist = hist]]
    /\ UNCHANGED <<lvars, rvars, avars, act>>

\* lines 1253-1379: the ledger file and the log are read and the lines folded
ReadLog(j) ==
    /\ jobs[j].pc = "map"
    /\ LET r == FoldLines(recent_lines(log), ledger_file.lines,
                          jobs[j].connections, {}, jobs[j].hist)
       IN \E l \in all_processed(ledger_file, r.new_processed_lines) :
            jobs' = [jobs EXCEPT ![j] = [pc |-> "folded",
                                         connections |-> r.connections,
                                         ledger |-> l,
                                         lines |-> log,
                                         hist |-> r.hist]]
    /\ UNCHANGED <<lvars, rvars, avars, act>>

\* lines 1384-1389: the ledger file is written
WriteLedger(j) ==
    /\ jobs[j].pc = "folded"
    /\ ledger_file' = jobs[j].ledger
    /\ jobs' = [jobs EXCEPT ![j].pc = "ledger"]
    /\ UNCHANGED <<log, conn_file, ret, hist, lop, passes, rvars, avars, act>>

\* lines 1391-1397: old devices are dropped, the map is saved and returned
SaveMap(j, now) ==
    /\ jobs[j].pc = "ledger"
    /\ LET kept == Recent(jobs[j].connections, now)
       IN /\ conn_file' = kept
          /\ ret' = kept
          /\ hist' = Restrict(jobs[j].hist, DOMAIN kept)
    /\ jobs' = [jobs EXCEPT ![j].pc = "done"]
    /\ lop' = [kind |-> "Pass", now |-> now]
    /\ passes' = passes + 1
    /\ UNCHANGED <<log, ledger_file, rvars, avars, act>>

NextLogThreads ==
    \/ \E line \in IOLines : AppendLine(line)
    \/ \E j \in Workers : LoadMap(j)
    \/ \E j \in Workers : ReadLog(j)
    \/ \E j \in Workers : WriteLedger(j)
    \/ \E j \in Workers : SaveMap(j, T0 + 2 * SessionGap)

SpecLogThreads == InitLog /\ [][NextLogThreads]_vars

\* C33: when two passes have run over the same log, however their steps
\* interleaved, the persisted map is the map of a single pass over that log.
C33_InterleavedPasses ==
    (\A j \in Workers : jobs[j].pc = "done" /\ jobs[j].lines = log)
        => conn_file = SinglePass(log)

(***************************************************************************)
(* Activate, one file operation at a time.  Between the operation that     *)
(* removes the entry bootstrap.py (unlink, or rename to a backup) and the  *)
(* one that creates it again (symlink_to, or the open of shutil.copy2) the *)
(* handler holds no lock, so the read-only handlers can run in another     *)
(* thread and see the directory as it is at that moment.                   *)
(***************************************************************************)
\* the content of a file that is open for writing and not yet written out
Partial == 0

\* lines 809-873: the handler up to and including the operation that removes
\* the entry bootstrap.py, or up to its response when it ends before that.
\* pc tells what the handler does next.
set_active_first(f, filename) ==
    LET name == validate_filename_for_api(filename)
        script_path == safe_path_join(f, name)
        target == BOOTSTRAP_SCRIPT
        ends == \/ name = None
                \/ script_path = None
                \/ ~Exists(f, script_path)
                \/ ~EndsWith(script_path, S_py)
                \/ (name = BOOTSTRAP_SCRIPT /\ ~IsSymlink(f, target))
    IN IF ends
       THEN {[fs |-> r.fs, pc |-> "idle", source |-> <<>>,
              status |-> r.status, err |-> r.err] : r \in set_active_script(f, filename)}
       ELSE IF name = BOOTSTRAP_SCRIPT
       THEN {[fs |-> Unlink(f, target), pc |-> "copy", source |-> Resolve(f, script_path),
              status |-> 200, err |-> ""]}
       ELSE {[fs |-> f1, pc |-> "symlink", source |-> script_path,
              status |-> 200, err |-> ""] :
                f1 \in IF Exists(f, target) /\ IsSymlink(f, target)
                       THEN {Unlink(f, target)}
                       ELSE IF Exists(f, target)
                       THEN cleanup_old_backups(
                                RenameEntry(f, target, BackupName(Stat(f, target).mtime)))
                       ELSE {f}}

\* line 854, shutil.copy2: the destination is opened for writing at time t
set_active_open(f, t) == WriteThrough(f, BOOTSTRAP_SCRIPT, Partial, t)

\* line 854, the bytes and the times are copied; line 876, symlink_to
set_active_last(f, pc, source) ==
    IF pc = "write" THEN Out(Copy2(f, source, BOOTSTRAP_SCRIPT), 200, "")
    ELSE IF BOOTSTRAP_SCRIPT \in DOMAIN f THEN Out(f, 500, "Exception")
    ELSE Out((BOOTSTRAP_SCRIPT :> Link(source)) @@ f, 200, "")

\* the outcomes of the handler when nothing runs between its operations
set_active_steps(f, filename) ==
    UNION {IF r.pc = "idle" THEN {Out(r.fs, r.status, r.err)}
           ELSE IF r.pc = "symlink" THEN {set_active_last(r.fs, r.pc, r.source)}
           ELSE {set_active_last(set_active_open(r.fs, t), "write", r.source) : t \in Clock} :
              r \in set_active_first(f, filename)}

ActivateBegin(n) ==
    /\ act.pc = "idle"
    /\ requests < MaxRequests
    /\ requests' = requests + 1
    /\ \E r \in set_active_first(fs, n) :
        /\ fs' = r.fs
        /\ act' = [pc |-> r.pc, name |-> IF r.pc = "idle" THEN <<>> ELSE n,
                   source |-> r.source]
        /\ op' = IF r.pc = "idle" THEN Done("Activate", n, <<>>, r) ELSE op
    /\ UNCHANGED <<meta, jobs, lvars, avars>>

ActivateOpen ==
    /\ act.pc = "copy"
    /\ \E t \in Clock : fs' = set_active_open(fs, t)
    /\ act' = [act EXCEPT !.pc = "write"]
    /\ UNCHANGED <<meta, op, requests, jobs, lvars, avars>>

ActivateEnd ==
    /\ act.pc \in {"write", "symlink"}
    /\ LET r == set_active_last(fs, act.pc, act.source)
       IN /\ fs' = r.fs
          /\ op' = Done("Activate", act.name, <<>>, r)
    /\ act' = [pc |-> "idle", name |-> <<>>, source |-> <<>>]
    /\ UNCHANGED <<meta, requests, jobs, lvars, avars>>

NextSteps ==
    \/ \E n \in ActivateNames : ActivateBegin(n)
    \/ ActivateOpen
    \/ ActivateEnd
    \/ \E n \in GetNames : Get(n)
    \/ List

\* the seeds of the registry; on each of them the operations, run one after
\* the other, give what set_active_script gives
InitSteps ==
    /\ Init
    /\ \A n \in ActivateNames : set_active_steps(fs, n) = set_active_script(fs, n)

SpecSteps == InitSteps /\ [][NextSteps]_vars

\* C32: a Get or a List that runs while an Activate is between two of its
\* file operations finds bootstrap.py in the directory, resolving to a file
\* that is completely written; Get("bootstrap.py") answers 200.
C32_ReadersSeePointer ==
    [][(/\ act.pc # "idle"
        /\ act' = act
        /\ op'.kind \in {"Get", "List"})
       => /\ Exists(fs, BOOTSTRAP_SCRIPT)
          /\ Stat(fs, BOOTSTRAP_SCRIPT).content # Partial
          /\ (op'.kind = "Get" /\ op'.name = BOOTSTRAP_SCRIPT) => op'.status = 200]_vars

====
